---- MODULE Spec2Model ----
(***************************************************************************)
(* A model of the connection and reliable-delivery core of wappsto-python: *)
(* ClientSocket (communication.py), MessageLog (message_log.py) and the    *)
(* per-value report thread of Value (value.py).                            *)
(***************************************************************************)
EXTENDS Integers, Sequences, FiniteSets, TLC

\* ------------------------------------------------------------------ bounds
\* Envelopes the application, the peer and the reconnect path may create.
MaxEnv == 3
\* The same, in the runs that fill the batch up to MAX_BULK_SIZE.
MaxEnvCap == 11
\* Packages waiting in sending_queue.
MaxQueue == 2
\* Calendar days the offline log sees.
MaxDay == 2
\* Scheduler ticks of one run of the report thread.
MaxTicks == 5
\* Clock units in one second (the timestamps carry fractions of a second).
SubSec == 2
\* Envelopes the offline-log runs hand to add_message.
MaxLogEnv == 6
\* JSON lengths of the envelopes of the offline-log runs: with the brackets of
\* the batch, a text of 31 bytes (sys.getsizeof 80) and one of 80 bytes.
ShortLen == 29
LongLen == 78
\* Times the peer's end of the socket goes away.
MaxFaults == 1
\* log_data_limit of the connection model: room for every envelope.
RoomyLimit == 100000
\* JSON length of the envelopes of the connection model.
EnvLen == 20

\* threads that call create_bulk at the same time
NCallers == 2
\* The largest whole number handed to set_period and set_delta.
MaxArg == 2
\* The most elements of a JSON list, and the most envelopes of a batch whose
\* nesting is modelled.
MaxElems == 2
\* The bytes of a chunk that does not fill the read buffer.
ShortChunk == 100

\* ------------------------------------------------------- program constants
\* values in the network
NValues == 2
\* control states asked for by initialize_all
MaxControls == 2
\* the retry limits a reconnect call is given (0 stands for None below)
MaxRetry == 2
\* connect attempts of one unlimited reconnect call
MaxAttempts == 3

\* close() calls in a row
MaxCloses == 3

\* envelopes waiting in the batch when create_bulk is called directly
MaxBatch == 3

MAX_BULK_SIZE == 10
RECEIVE_SIZE == 1024
MESSAGE_SIZE_BYTES == 1000000
REMOVE_OLD == 1
REMOVE_RECENT == 2
\* sys.getsizeof of an ASCII str is its length plus the object header.
PY_STR_OVERHEAD == 49
\* sys.getsizeof of an empty str of two-byte characters.
WIDE_STR_OVERHEAD == 74
\* A ZIP_STORED archive of one member: local header 30, central directory
\* entry 46, end record 22, plus the member name twice.
ZIP_FIXED_BYTES == 98
\* Bytes file.write adds after the JSON text: " \n".
LINE_SUFFIX_BYTES == 2

\* ---------------------------------------------------------------- helpers
RECURSIVE SumSeq(_)
SumSeq(q) == IF q = <<>> THEN 0 ELSE Head(q) + SumSeq(Tail(q))

RECURSIVE Flatten(_)
Flatten(qq) == IF qq = <<>> THEN <<>> ELSE Head(qq) \o Flatten(Tail(qq))

Range(q) == {q[i] : i \in 1..Len(q)}

Ids(batch) == {batch[i].id : i \in 1..Len(batch)}

\* A request envelope as the message builder hands it over: id, method
\* ("NONE" for a reply, which carries no method key) and the length of its
\* JSON text.
Env(id, method, len) == [id |-> id, method |-> method, len |-> len]

Mutating(e) == e.method \in {"PUT", "POST", "DELETE"}

\* ----------------------------------------------------------------- state
\* None, where a socket handle is expected.
NoSocket == 0

\* The values of the network (each has one timer).
Values == 1..NValues

\* retry_limit=None.
NoLimit == -1

\* A decoded inbound frame, by what receive and the request handlers look at:
\*   top    - "null" (a falsy JSON value), "scalar" (a number, a text, true),
\*            "object"
\*   method - "PUT", "GET", "DELETE", or "none" (no method, error or result)
\*   nest   - how far params.data.meta.id is there: "no_params", "no_data",
\*            "no_meta", "no_id", "full"
\*   target - what get_by_id finds: "unknown", "value" (a value with a report
\*            state), "report", "control", "device", "network"; meta.type is
\*            "value", "state", "state", "device", "network" for these
\*   period - params.data.period: "absent", "text", "number"
\* (params.data.delta is a number whenever params.data is there, and
\* params.meta.trace is absent.)
Frame(top, method, nest, target, period) ==
  [top |-> top, method |-> method, nest |-> nest, target |-> target, period |-> period]

NoInbound ==
  [frame |-> Frame("null", "none", "full", "unknown", "absent"), put |-> <<>>, reply |-> 0]

\* initialize_all and reconnect(retry_limit) before they are called.
NoBoot == [pc |-> "off", gets |-> {}, post |-> 0, answered |-> {}]

NoRecon == [pc |-> "off", limit |-> NoLimit, attempt |-> 0, made |-> <<>>, raised |-> FALSE]

\* The for loop of send_reconnect before it runs: the dict iterator (the size
\* of the dict when it was made, the keys it has passed) and the loop variable.
NoResend == [pc |-> "off", size0 |-> 0, seen |-> {}, element |-> 0]

\* The threads that call create_bulk (an application thread in update, a
\* report thread, the send_log task, the send thread).
Callers == 1..NCallers

\* No create_bulk call under way; wire: every envelope written so far.
NoBulkCalls == [pc |-> [c \in Callers |-> "idle"], wire |-> <<>>]

\* The last send_data stripping of a batch of nested JSON: none yet.
NoStrip == [pc |-> "off", given |-> <<>>, data |-> <<>>, exc |-> "none"]

\* receive_data not called yet.  (chars, wide: total_decoded; chunks: the
\* recv calls of this call; last: what the last iteration saw and did.)
NoChunk == [bytes |-> 0, wide |-> FALSE, split |-> FALSE, parses |-> FALSE]
NoReading ==
  [pc |-> "idle", chars |-> 0, wide |-> FALSE, chunks |-> 0, result |-> "none",
   last |-> [chunk |-> NoChunk, failed |-> FALSE, within |-> TRUE, went |-> "none"]]

VARIABLES
  connected,                \* ClientSocket.connected
  link,                     \* the peer's end of my_socket: "up" or "down"
  sending_queue,            \* ClientSocket.sending_queue
  bulk_send_list,           \* ClientSocket.bulk_send_list
  packet_awaiting_confirm,  \* ClientSocket.packet_awaiting_confirm (insertion order)
  rthread,                  \* receive thread: "off", "top", "recv", "reconnecting", "dead"
  sthread,                  \* send thread: "off", "run", "dead"
  replay,                   \* the send_log task: [pc, list]
  nextId,                   \* ids handed out so far
  faults,                   \* link faults so far
  files,                    \* log directory: day -> [kind, lines]
  today,                    \* index of the current calendar day
  log_offline, log_data_limit, limit_action, lines_to_remove,
  automatic_trace,          \* ClientSocket.automatic_trace
  tracer,                   \* the trace endpoint of urlopen: "up" or "down"
  hist,                     \* observations of the last step (history variable)
  vs,                       \* Value report state and its report thread
  my_socket,                \* ClientSocket.my_socket: a handle, or None
  my_raw_socket,            \* ClientSocket.my_raw_socket: a handle, or None
  handles,                  \* the socket objects created so far
  timers,                   \* value.timer of each value of the network
  boot,                     \* initialize_all on the owner's thread
  recon,                    \* a reconnect(retry_limit) call on the owner's thread
  resend,                   \* the loop of send_reconnect, statement by statement
  bulk_calls,               \* create_bulk calls under way, statement by statement
  strip,                    \* the stripping loop of send_data on nested JSON
  reading                   \* the loop of receive_data, chunk by chunk

vars == <<connected, link, sending_queue, bulk_send_list,
          packet_awaiting_confirm, rthread, sthread, replay, nextId, faults,
          files, today, log_offline, log_data_limit, limit_action, lines_to_remove,
          automatic_trace, tracer,
          hist, vs, my_socket, my_raw_socket, handles, timers, boot, recon, resend,
          bulk_calls, strip, reading>>

connVars == <<connected, link, sending_queue, bulk_send_list,
              packet_awaiting_confirm, rthread, sthread, replay, nextId, faults,
              my_socket, my_raw_socket, handles, timers, boot, recon, resend,
              bulk_calls, strip, reading>>
logVars == <<files, today>>
cfgVars == <<log_offline, log_data_limit, limit_action, lines_to_remove,
             automatic_trace, tracer>>

\* ------------------------------------------------------------ offline log
\* The calendar days, oldest first, as (month, day) of one year.
LogDates == << <<9, 30>>, <<10, 1>>, <<10, 2>>, <<10, 3>>, <<10, 4>> >>
Days == 1..MaxDay

Digits(n) == IF n < 10 THEN <<48 + n>> ELSE <<48 + (n \div 10), 48 + (n % 10)>>

\* get_log_name: the characters of "<month>-<day>." that follow the year
\* (ASCII codes; the year prefix is the same for every file of the model).
LogName(d) == Digits(LogDates[d][1]) \o <<45>> \o Digits(LogDates[d][2]) \o <<46>>

\* Length of "YYYY-M-D.txt".
NameLen(d) == 5 + Len(LogName(d)) + 3

\* Python's str comparison, as list.sort() applies it to file names.
RECURSIVE StrLess(_, _)
StrLess(a, b) ==
  IF b = <<>> THEN FALSE
  ELSE IF a = <<>> THEN TRUE
  ELSE IF Head(a) # Head(b) THEN Head(a) < Head(b)
  ELSE StrLess(Tail(a), Tail(b))

NoFile == [kind |-> "none", lines |-> <<>>]

\* json.dumps of a batch: the text of one log line, as tokens.
EnvTokens(e) == << [k |-> "open"], [k |-> "id", v |-> e.id],
                   [k |-> "method", v |-> e.method],
                   [k |-> "len", v |-> e.len], [k |-> "close"] >>

JsonDumps(batch) ==
  << [k |-> "lbracket"] >> \o Flatten([i \in 1..Len(batch) |-> EnvTokens(batch[i])])
     \o << [k |-> "rbracket"] >>

\* json.loads of a line written by add_message.
JsonLoads(text) ==
  [i \in 1..((Len(text) - 2) \div 5) |->
     [id |-> text[5 * (i - 1) + 3].v, method |-> text[5 * (i - 1) + 4].v,
      len |-> text[5 * (i - 1) + 5].v]]

\* len(string_data): "[" e1 ", " e2 ... "]".
StrLen(text) ==
  LET b == JsonLoads(text)
  IN 2 + SumSeq([i \in 1..Len(b) |-> b[i].len])
       + (IF Len(b) > 1 THEN 2 * (Len(b) - 1) ELSE 0)

\* os.path.getsize of one log file.
FileSize(fs, d) ==
  LET txt == SumSeq([i \in 1..Len(fs[d].lines) |->
                       StrLen(fs[d].lines[i].text) + LINE_SUFFIX_BYTES])
  IN CASE fs[d].kind = "none" -> 0
       [] fs[d].kind = "txt" -> txt
       [] fs[d].kind = "zip" -> txt + ZIP_FIXED_BYTES + 2 * NameLen(d)

RECURSIVE DirSize(_, _)
DirSize(fs, ds) ==
  IF ds = {} THEN 0
  ELSE LET d == CHOOSE x \in ds : TRUE IN FileSize(fs, d) + DirSize(fs, ds \ {d})

\* get_size: every file of the directory plus sys.getsizeof(string_data).
GetSize(fs, text) == DirSize(fs, DOMAIN fs) + PY_STR_OVERHEAD + StrLen(text)

\* get_logs: the days that have a log file, plain or zipped.
GetLogs(fs) == {d \in DOMAIN fs : fs[d].kind # "none"}

\* compact_logs: every text log becomes a zip, the text file is removed.
CompactLogs(fs) ==
  [d \in DOMAIN fs |-> IF fs[d].kind = "txt" THEN [fs[d] EXCEPT !.kind = "zip"] ELSE fs[d]]

\* get_text_log: a zipped log is extracted and the zip removed.
GetTextLog(fs, d) ==
  IF fs[d].kind = "zip" THEN [fs EXCEPT ![d].kind = "txt"] ELSE fs

\* get_oldest_log: first name of the sorted list (the list is not empty).
OldestLog(fs) ==
  CHOOSE d \in GetLogs(fs) : \A o \in GetLogs(fs) \ {d} : StrLess(LogName(d), LogName(o))

\* remove_first_lines.
RemoveFirstLines(fs, d) ==
  IF lines_to_remove < Len(fs[d].lines)
  THEN [fs EXCEPT ![d].lines = SubSeq(@, lines_to_remove + 1, Len(@))]
  ELSE [fs EXCEPT ![d] = NoFile]

\* Ids of the envelopes some line of some log file holds.
FileIds(fs) ==
  UNION {UNION {Ids(JsonLoads(fs[d].lines[i].text)) : i \in 1..Len(fs[d].lines)} :
           d \in DOMAIN fs}

\* add_message with a drop-newest branch that trims the oldest log before it
\* discards the message.
AddMessageTrimOnDrop(s, data) ==
  IF ~log_offline THEN s
  ELSE
    LET string_data == JsonDumps(data) IN
    IF log_data_limit >= GetSize(s.files, string_data)
    THEN LET fs1 == IF s.files[today].kind # "txt" THEN CompactLogs(s.files)
                    ELSE s.files
             line == [text |-> string_data, src |-> data]
         IN [s EXCEPT !.files = [fs1 EXCEPT ![today] =
                                   [kind |-> "txt", lines |-> Append(fs1[today].lines, line)]],
                      !.stored = @ \cup Ids(data),
                      !.adds = @ + 1]
    ELSE IF GetLogs(s.files) = {} THEN [s EXCEPT !.evicted = @ \cup Ids(data)]
    ELSE LET d == OldestLog(s.files)
         IN [s EXCEPT !.files = RemoveFirstLines(GetTextLog(s.files, d), d),
                      !.evicted = @ \cup Ids(data)]

\* add_message. s is the state a handler works on; exc names an exception
\* raised and not caught.
RECURSIVE AddMessage(_, _)
AddMessage(s, data) ==
  IF ~log_offline THEN s
  ELSE
    LET string_data == JsonDumps(data) IN
    IF log_data_limit >= GetSize(s.files, string_data)
    THEN LET fs1 == IF s.files[today].kind # "txt" THEN CompactLogs(s.files)
                    ELSE s.files
             line == [text |-> string_data, src |-> data]
         IN [s EXCEPT !.files = [fs1 EXCEPT ![today] =
                                   [kind |-> "txt", lines |-> Append(fs1[today].lines, line)]],
                      !.stored = @ \cup Ids(data),
                      !.adds = @ + 1]
    ELSE IF limit_action = REMOVE_OLD
    THEN IF GetLogs(s.files) = {}
         THEN [s EXCEPT !.exc = "IndexError"]
         ELSE LET d == OldestLog(s.files)
                  fs1 == GetTextLog(s.files, d)
                  fs2 == RemoveFirstLines(fs1, d)
              IN AddMessage([s EXCEPT !.files = fs2,
                                      !.evicted = @ \cup (FileIds(fs1) \ FileIds(fs2))],
                            data)
    ELSE [s EXCEPT !.evicted = @ \cup Ids(data)]

\* ------------------------------------------------- pending-ack and batcher
NoData == [id |-> 0, method |-> "NONE", len |-> 0]

\* add_id_to_confirm_list: dict assignment keeps the insertion order, a key
\* already present keeps its place.
AddIdToConfirmList(pend, e) ==
  IF \E i \in 1..Len(pend) : pend[i].id = e.id
  THEN [i \in 1..Len(pend) |-> IF pend[i].id = e.id THEN e ELSE pend[i]]
  ELSE Append(pend, e)

\* remove_id_from_confirm_list.
RemoveIdFromConfirmList(pend, id) == SelectSeq(pend, LAMBDA e : e.id # id)

\* The registering loop of send_data.
RECURSIVE RegisterAll(_, _)
RegisterAll(pend, data) ==
  IF data = <<>> THEN pend
  ELSE RegisterAll(IF Mutating(Head(data)) THEN AddIdToConfirmList(pend, Head(data))
                   ELSE pend,
                   Tail(data))

\* my_socket.send(data): OSError when the peer's end is gone.  (attempts: the
\* data of each call and the ids pending when it was made, an observation.)
SocketSend(s0, data) ==
  LET s == [s0 EXCEPT !.attempts = Append(@, [data |-> data, pend |-> Ids(s0.pend),
                                              ok |-> s0.link = "up"])]
  IN IF s.link = "up"
     THEN [s EXCEPT !.frames = Append(@, data), !.written = @ \cup Ids(data),
                    !.unacked = @ \cup {data[i].id : i \in {j \in 1..Len(data) : Mutating(data[j])}}]
     ELSE [s EXCEPT !.exc = "OSError"]

\* An envelope whose every value is None or empty: get_object_without_none_values
\* leaves {} of it.
Hollow == Env(0, "NONE", 2)

RemoveAt(q, i) == SubSeq(q, 1, i - 1) \o SubSeq(q, i + 1, Len(q))

\* The stripping loop of send_data: "for data_element in data" with
\* data.remove(data_element) inside; after a removal the iterator's index has
\* moved past the element that took the removed one's place.
RECURSIVE StripLoop(_, _)
StripLoop(data, i) ==
  IF i > Len(data) THEN data
  ELSE IF data[i] = Hollow THEN StripLoop(RemoveAt(data, i), i + 1)
  ELSE StripLoop(data, i + 1)

\* ------------------------------------------------- stripping nested JSON
\* A JSON value: None, a text, a dict (kids are its values in key order, each
\* carrying its key) or a list (kids are its elements).
JNone(key) == [t |-> "none", key |-> key, kids |-> <<>>]
JText(key) == [t |-> "text", key |-> key, kids |-> <<>>]
JDict(key, kids) == [t |-> "dict", key |-> key, kids |-> kids]
JList(key, kids) == [t |-> "list", key |-> key, kids |-> kids]

\* list.remove(x): the first element equal to x goes.
FirstIndex(q, x) == CHOOSE i \in 1..Len(q) : q[i] = x /\ \A j \in 1..(i - 1) : q[j] # x
RemoveFirst(q, x) == RemoveAt(q, FirstIndex(q, x))

\* get_object_without_none_values(encoded_object): encoded_object.items()
\* raises AttributeError for what is no dict; the keys are visited over a copy
\* (list(items)), the elements of a list value over the list itself, which
\* val.remove shortens under the iterator.  The result is [exc, obj].
RECURSIVE GetObjectWithoutNoneValues(_)
RECURSIVE StripItems(_, _)
RECURSIVE StripElements(_, _)
GetObjectWithoutNoneValues(obj) ==
  IF obj.t # "dict" THEN [exc |-> "AttributeError", obj |-> obj]
  ELSE LET r == StripItems(obj.kids, 1)
       IN [exc |-> r.exc, obj |-> [obj EXCEPT !.kids = r.kids]]

\* The loop over list(encoded_object.items()), from the i-th remaining key.
StripItems(kids, i) ==
  IF i > Len(kids) THEN [exc |-> "none", kids |-> kids]
  ELSE LET val == kids[i] IN
    IF val.t = "none" THEN StripItems(RemoveAt(kids, i), i)
    ELSE IF val.t = "dict"
    THEN LET r == GetObjectWithoutNoneValues(val)
         IN IF r.exc # "none" THEN [exc |-> r.exc, kids |-> [kids EXCEPT ![i] = r.obj]]
            ELSE IF Len(r.obj.kids) = 0 THEN StripItems(RemoveAt(kids, i), i)
            ELSE StripItems([kids EXCEPT ![i] = r.obj], i + 1)
    ELSE IF val.t = "list"
    THEN LET r == StripElements(val.kids, 1)
         IN IF r.exc # "none"
            THEN [exc |-> r.exc, kids |-> [kids EXCEPT ![i].kids = r.kids]]
            ELSE IF Len(r.kids) = 0 THEN StripItems(RemoveAt(kids, i), i)
            ELSE StripItems([kids EXCEPT ![i].kids = r.kids], i + 1)
    ELSE StripItems(kids, i + 1)

\* "for val_element in val" with val.remove(val_element) inside, the iterator
\* at index i; the loop at the head of send_data has the same shape.
StripElements(q, i) ==
  IF i > Len(q) THEN [exc |-> "none", kids |-> q]
  ELSE LET r == GetObjectWithoutNoneValues(q[i])
           q1 == [q EXCEPT ![i] = r.obj]
       IN IF r.exc # "none" THEN [exc |-> r.exc, kids |-> q1]
          ELSE IF Len(r.obj.kids) = 0 THEN StripElements(RemoveFirst(q1, r.obj), i + 1)
          ELSE StripElements(q1, i + 1)

\* The values of a dict two levels down, of a dict one level down, and of an
\* envelope.
SeqsUpTo(S, n) == UNION {[1..k -> S] : k \in 0..n}
Leaves(key) == {JNone(key), JText(key)}
InnerDicts(key) ==
  {JDict(key, <<>>)} \cup {JDict(key, <<v>>) : v \in Leaves("a")}
Elements == InnerDicts("") \cup {JText("")}
InnerValues(key) ==
  Leaves(key) \cup InnerDicts(key)
  \cup {JList(key, q) : q \in SeqsUpTo(Elements, MaxElems)}
Envelopes ==
  {JDict("", <<>>)}
  \cup {JDict("", <<v>>) : v \in InnerValues("a")}
  \cup {JDict("", <<v, w>>) : v \in Leaves("a"), w \in InnerDicts("b")}
Batches == SeqsUpTo(Envelopes, MaxElems)

\* send_data(data) as far as its first loop, called once.
SendDataStrip(data) ==
  /\ strip.pc = "off"
  /\ LET r == StripElements(data, 1)
     IN strip' = [pc |-> "done", given |-> data, data |-> r.kids, exc |-> r.exc]
  /\ UNCHANGED <<connected, link, sending_queue, bulk_send_list,
                 packet_awaiting_confirm, rthread, sthread, replay, nextId, faults,
                 my_socket, my_raw_socket, handles, timers, boot, recon, resend,
                 bulk_calls, reading, logVars, cfgVars, hist, vs>>

\* send_data with the write before the registering loop.
SendDataWriteFirst(s0, data0) ==
  LET data == StripLoop(data0, 1)
      s == [s0 EXCEPT !.sends = @ + 1, !.bulk = data] IN
  IF s.connected
  THEN LET s1 == IF Len(data) > 0 THEN SocketSend(s, data) ELSE s
       IN IF s1.exc = "none" THEN [s1 EXCEPT !.pend = RegisterAll(@, data)] ELSE s1
  ELSE [AddMessage(s, data) EXCEPT !.handed = Append(@, data)]

\* send_data that registers the requests before it looks at the flag.
SendDataRegisterFirst(s0, data0) ==
  LET data == StripLoop(data0, 1)
      s == [s0 EXCEPT !.sends = @ + 1, !.bulk = data]
      s1 == [s EXCEPT !.pend = RegisterAll(@, data)] IN
  IF s.connected
  THEN IF Len(data) > 0 THEN SocketSend(s1, data) ELSE s1
  ELSE [AddMessage(s1, data) EXCEPT !.handed = Append(@, data)]

\* send_data. (sends counts the invocations of the step, handed lists the
\* batches given to add_message: observations.)
\* The list it strips is bulk_send_list itself.
SendData(s0, data0) ==
  LET data == StripLoop(data0, 1)
      s == [s0 EXCEPT !.sends = @ + 1, !.bulk = data] IN
  IF s.connected
  THEN LET s1 == [s EXCEPT !.pend = RegisterAll(@, data)]
       IN IF Len(data) > 0 THEN SocketSend(s1, data) ELSE s1
  ELSE [AddMessage(s, data) EXCEPT !.handed = Append(@, data)]

\* The flush condition of create_bulk.
FlushCondition(s) ==
  \/ Len(s.queue) = 0 /\ Len(s.pend) = 0
  \/ Len(s.bulk) >= MAX_BULK_SIZE

\* create_bulk with the envelope put at the head of the batch.
CreateBulkAtHead(s, data) ==
  LET s1 == IF data # NoData THEN [s EXCEPT !.bulk = <<data>> \o @] ELSE s
      cond == FlushCondition(s1)
      s2 == IF cond THEN SendData(s1, s1.bulk) ELSE s1
      s3 == IF cond /\ s2.exc = "none" THEN [s2 EXCEPT !.bulk = <<>>]
            ELSE IF s2.exc = "OSError" THEN [s2 EXCEPT !.connected = FALSE, !.exc = "none"]
            ELSE s2
  IN [s3 EXCEPT !.calls = Append(@, [qlen |-> Len(s1.queue), plen |-> Len(s1.pend),
                                      blen |-> Len(s1.bulk),
                                      batch |-> s1.bulk, live |-> s1.connected,
                                      invoked |-> s2.sends > s1.sends,
                                      emptied |-> s3.bulk = <<>>,
                                      raised |-> s2.exc])]

\* create_bulk. OSError is caught (connected := False, the list is not
\* cleared); any other exception leaves through the caller.
CreateBulk(s, data) ==
  LET s1 == IF data # NoData THEN [s EXCEPT !.bulk = Append(@, data)] ELSE s
      cond == FlushCondition(s1)
      s2 == IF cond THEN SendData(s1, s1.bulk) ELSE s1
      s3 == IF cond /\ s2.exc = "none" THEN [s2 EXCEPT !.bulk = <<>>]
            ELSE IF s2.exc = "OSError" THEN [s2 EXCEPT !.connected = FALSE, !.exc = "none"]
            ELSE s2
  IN [s3 EXCEPT !.calls = Append(@, [qlen |-> Len(s1.queue), plen |-> Len(s1.pend),
                                      blen |-> Len(s1.bulk),
                                      batch |-> s1.bulk, live |-> s1.connected,
                                      invoked |-> s2.sends > s1.sends,
                                      emptied |-> s3.bulk = <<>>,
                                      raised |-> s2.exc])]

\* get_rpc_network(put=False): the reconnect announcement, a POST request.
GetRpcNetwork(id) == Env(id, "POST", EnvLen)
\* get_rpc_state of a report: a PUT request.
GetRpcState(id, len) == Env(id, "PUT", len)
\* get_rpc_success_response: a reply, it has no method.
GetRpcSuccessResponse(id) == Env(id, "NONE", EnvLen)
\* get_rpc_fail_response: an error reply, it has no method.
GetRpcFailResponse(id) == Env(id, "NONE", EnvLen)
\* get_rpc_delete: a DELETE request.
GetRpcDelete(id) == Env(id, "DELETE", EnvLen)

\* send_trace: urlopen raises URLError (an OSError) when the endpoint cannot
\* be reached.
SendTrace(s) == IF s.tracer = "up" THEN s ELSE [s EXCEPT !.exc = "URLError"]

\* create_trace without a trace id: with automatic_trace the beacon is sent.
CreateTrace(s) == IF s.automatic_trace THEN SendTrace(s) ELSE s

\* send_state: create_trace, then the report envelope of the builder goes to
\* create_bulk.
SendState(s, id, len) ==
  LET s1 == CreateTrace(s)
  IN IF s1.exc # "none" THEN s1 ELSE CreateBulk(s1, GetRpcState(id, len))

\* send_delete: create_trace, then the DELETE request goes to create_bulk.
SendDelete(s, id) ==
  LET s1 == CreateTrace(s)
  IN IF s1.exc # "none" THEN s1 ELSE CreateBulk(s1, GetRpcDelete(id))

\* The loop of send_reconnect over packet_awaiting_confirm: a dict iterator
\* raises RuntimeError at its next step once the dict has changed size.
RECURSIVE ReplayPending(_, _, _)
ReplayPending(s, keys, size0) ==
  IF Len(s.pend) # size0 THEN [s EXCEPT !.exc = "RuntimeError"]
  ELSE IF keys = <<>> THEN s
  ELSE LET e == (SelectSeq(s.pend, LAMBDA x : x.id = Head(keys)))[1]
           s1 == CreateBulk(s, e)
       IN IF s1.exc # "none" THEN s1 ELSE ReplayPending(s1, Tail(keys), size0)

\* send_reconnect: create_trace, the announcement, the pending envelopes; an
\* OSError is caught (connected := False).
SendReconnect(s, id) ==
  LET s0 == CreateTrace(s)
      s1 == CreateBulk(s0, GetRpcNetwork(id))
  IN IF s0.exc = "URLError" THEN [s0 EXCEPT !.connected = FALSE, !.exc = "none"]
     ELSE IF s1.exc # "none" THEN s1
     ELSE ReplayPending(s1, [i \in 1..Len(s1.pend) |-> s1.pend[i].id], Len(s1.pend))

\* The element loop of send_log, as a loop that stops after the first
\* element of the line would run.
ReplayFirstElement(s, data) ==
  IF data = <<>> \/ s.exc # "none" THEN s
  ELSE [CreateBulk(s, Head(data)) EXCEPT
          !.replayed[Len(s.replayed)].handed = Append(@, Head(data))]

\* The element loop of send_log over one decoded line.
RECURSIVE ReplayElements(_, _)
ReplayElements(s, data) ==
  IF data = <<>> \/ s.exc # "none" THEN s
  ELSE ReplayElements([CreateBulk(s, Head(data)) EXCEPT
                         !.replayed[Len(s.replayed)].handed = Append(@, Head(data))],
                      Tail(data))

\* The line loop of send_log over file.readlines().
RECURSIVE ReplayLines(_, _)
ReplayLines(s, lines) ==
  IF lines = <<>> \/ s.exc # "none" THEN s
  ELSE LET data == JsonLoads(Head(lines).text)
           s0 == [s EXCEPT !.replayed = Append(@, [src |-> Head(lines).src,
                                                   handed |-> <<>>])]
       IN ReplayLines(ReplayElements(s0, data), Tail(lines))

\* ------------------------------------------------------ sockets and close
\* socket.socket(...) and ssl_context.wrap_socket(...): a new socket object.
\* (beside: a socket of that kind made earlier was still open then.)
NewHandle(hs, kind) ==
  Append(hs, [kind |-> kind, state |-> "open",
              beside |-> \E i \in 1..Len(hs) : hs[i].kind = kind /\ hs[i].state = "open"])

\* set_sockets: the raw socket, then my_socket = ssl_wrap().
SetSockets(s) ==
  LET h1 == NewHandle(s.handles, "raw")
      h2 == NewHandle(h1, "tls")
  IN [s EXCEPT !.handles = h2, !.my_raw_socket = Len(h1), !.my_socket = Len(h2)]

\* socket.close() (closing a closed socket is allowed).
CloseSocket(hs, h) == [hs EXCEPT ![h].state = "closed"]

\* close without the loop over the values' timers.
CloseSocketsOnly(s) ==
  LET s1 == [s EXCEPT !.connected = FALSE, !.closes = @ + 1]
      s2 == IF s1.my_socket # NoSocket
            THEN [s1 EXCEPT !.handles = CloseSocket(@, s1.my_socket),
                            !.my_socket = NoSocket]
            ELSE s1
  IN IF s2.my_raw_socket # NoSocket
     THEN [s2 EXCEPT !.handles = CloseSocket(@, s2.my_raw_socket),
                     !.my_raw_socket = NoSocket]
     ELSE s2

\* close: every value's timer is cancelled (value.timer is a threading.Timer
\* that the code creating the values sets), the flag is cleared, each handle
\* that is set is closed and set to None.
Close(s) ==
  LET s1 == [s EXCEPT !.timers = [v \in Values |-> "cancelled"],
                      !.connected = FALSE,
                      !.closes = @ + 1]
      s2 == IF s1.my_socket # NoSocket
            THEN [s1 EXCEPT !.handles = CloseSocket(@, s1.my_socket),
                            !.my_socket = NoSocket]
            ELSE s1
  IN IF s2.my_raw_socket # NoSocket
     THEN [s2 EXCEPT !.handles = CloseSocket(@, s2.my_raw_socket),
                     !.my_raw_socket = NoSocket]
     ELSE s2

\* The loop body of reconnect with the two calls in the other order.
BuildThenClose(s) == Close(SetSockets(s))

\* The loop body of reconnect before connect(): close(), set_sockets().
ReopenSockets(s) == SetSockets(Close(s))

\* ------------------------------------------------------------ the actions
NoRc == [phase |-> "none", pend |-> <<>>, frame |-> <<>>]

\* The state a handler starts from.
Cur ==
  [connected |-> connected, link |-> link, queue |-> sending_queue,
   bulk |-> bulk_send_list, pend |-> packet_awaiting_confirm, files |-> files,
   exc |-> "none", calls |-> <<>>, frames |-> <<>>, attempts |-> <<>>,
   handed |-> <<>>,
   sends |-> 0, adds |-> 0,
   automatic_trace |-> automatic_trace, tracer |-> tracer,
   closes |-> IF hist.step = "close" THEN hist.closes ELSE 0, inbound |-> NoInbound,
   replayed |-> <<>>, written |-> hist.written, unacked |-> hist.unacked,
   stored |-> hist.stored, evicted |-> hist.evicted,
   my_socket |-> my_socket, my_raw_socket |-> my_raw_socket, handles |-> handles,
   timers |-> timers, boot |-> boot, recon |-> recon, resend |-> resend,
   bulk_calls |-> bulk_calls, strip |-> strip, reading |-> reading]

\* The first frame written after a read fault and the connect that follows.
RcAfter(s, rc) ==
  IF rc.phase = "await" /\ s.frames # <<>>
  THEN [rc EXCEPT !.phase = "seen", !.frame = s.frames[1]]
  ELSE rc

\* What a handler leaves behind.
Commit(s, step, rc) ==
  /\ connected' = s.connected
  /\ link' = s.link
  /\ sending_queue' = s.queue
  /\ bulk_send_list' = s.bulk
  /\ packet_awaiting_confirm' = s.pend
  /\ files' = s.files
  /\ my_socket' = s.my_socket
  /\ my_raw_socket' = s.my_raw_socket
  /\ handles' = s.handles
  /\ timers' = s.timers
  /\ boot' = s.boot
  /\ recon' = s.recon
  /\ resend' = s.resend
  /\ bulk_calls' = s.bulk_calls
  /\ strip' = s.strip
  /\ reading' = s.reading
  /\ hist' = [step |-> step, calls |-> s.calls, frames |-> s.frames,
              attempts |-> s.attempts, handed |-> s.handed,
              adds |-> s.adds, replayed |-> s.replayed, exc |-> s.exc,
              pend0 |-> packet_awaiting_confirm, bulk0 |-> bulk_send_list,
              written |-> s.written, unacked |-> s.unacked,
              stored |-> s.stored, evicted |-> s.evicted, rc |-> RcAfter(s, rc),
              inbound |-> s.inbound, closes |-> s.closes]

\* Value.update on the application's thread: the timestamps are set, then
\* send_state -> create_bulk.
Update(len, cap) ==
  /\ nextId < cap
  /\ nextId' = nextId + 1
  /\ vs' = [vs EXCEPT !.last_update_of_report = vs.now]
  /\ Commit(SendState(Cur, nextId + 1, len), "update", hist.rc)
  /\ UNCHANGED <<rthread, sthread, replay, faults, today, cfgVars>>

\* connect() as the start of a fresh session that forgets the pending set.
ConnectFreshSession(s) == [s EXCEPT !.connected = TRUE, !.link = "up", !.pend = <<>>]

\* connect() succeeds: the flag is set and send_logged_data starts send_log.
\* (A connect that fails changes nothing.)
ConnectOk(s) == [s EXCEPT !.connected = TRUE, !.link = "up"]

\* The first connect of the session; the two threads start.
Start ==
  /\ rthread = "off"
  /\ my_socket # NoSocket
  /\ replay.pc = "idle"
  /\ Commit(ConnectOk(Cur), "start", hist.rc)
  /\ rthread' = "top"
  /\ sthread' = "run"
  /\ replay' = [pc |-> "list", list |-> {}]
  /\ UNCHANGED <<nextId, faults, today, cfgVars, vs>>

\* The peer's end of the socket goes away.
BreakLink ==
  /\ link = "up"
  /\ faults < MaxFaults
  /\ faults' = faults + 1
  /\ Commit([Cur EXCEPT !.link = "down"], "break", hist.rc)
  /\ UNCHANGED <<rthread, sthread, replay, nextId, today, cfgVars, vs>>

\* receive_data: the loop head, then the blocking my_socket.recv.
RecvEnter ==
  /\ rthread = "top"
  /\ connected
  /\ rthread' = "recv"
  /\ Commit([Cur EXCEPT !.reading = [NoReading EXCEPT !.pc = "loop"]],
            "recv_enter", hist.rc)
  /\ UNCHANGED <<sthread, replay, nextId, faults, today, cfgVars, vs>>

\* recv returns b'' (or raises ConnectionResetError / OSError): reconnect()
\* starts, the flag is cleared.
RecvEmpty ==
  /\ rthread = "recv"
  /\ link = "down"
  /\ rthread' = "reconnecting"
  /\ Commit([Cur EXCEPT !.connected = FALSE], "recv_empty",
            IF connected
            THEN [phase |-> "fault", pend |-> packet_awaiting_confirm, frame |-> <<>>]
            ELSE NoRc)
  /\ UNCHANGED <<sthread, replay, nextId, faults, today, cfgVars, vs>>

\* What my_socket.recv(RECEIVE_SIZE) may hand over: its bytes, whether a
\* character of two bytes is among them (wide), whether it ends inside one
\* (split), and whether total_decoded with this chunk is one JSON value.
Chunks ==
  {[bytes |-> b, wide |-> w, split |-> s, parses |-> p] :
     b \in {ShortChunk, RECEIVE_SIZE}, w \in BOOLEAN, s \in BOOLEAN, p \in BOOLEAN}

\* len(decoded_data): a character of two bytes counts once.
CharsOf(c) == IF c.wide THEN c.bytes - 1 ELSE c.bytes

\* sys.getsizeof(total_decoded): a str of ASCII takes a byte a character, a
\* str with a character above U+00FF two.
GetSizeOf(chars, wide) ==
  IF wide THEN WIDE_STR_OVERHEAD + 2 * chars ELSE PY_STR_OVERHEAD + chars

\* One iteration of the loop of receive_data whose recv hands over a chunk:
\* decode, append, size test, json.loads.  UnicodeDecodeError is caught
\* neither here nor in receive_message and ends the receive thread; a return
\* hands the result to receive_message.
ReadChunk(c) ==
  /\ rthread = "recv"
  /\ link = "up"
  /\ connected
  /\ reading.pc = "loop"
  /\ ~(c.split /\ c.parses)
  /\ LET chars == reading.chars + CharsOf(c)
         wide == reading.wide \/ c.wide
         within == GetSizeOf(chars, wide) <= MESSAGE_SIZE_BYTES
         went == IF c.split THEN "raised"
                 ELSE IF ~within THEN "returned"
                 ELSE IF c.parses THEN "returned"
                 ELSE IF CharsOf(c) < RECEIVE_SIZE THEN "returned"
                 ELSE "loop"
         r == [pc |-> went,
               chars |-> IF c.split THEN reading.chars ELSE chars,
               wide |-> IF c.split THEN reading.wide ELSE wide,
               chunks |-> reading.chunks + 1,
               result |-> IF ~c.split /\ within /\ c.parses THEN "message" ELSE "none",
               last |-> [chunk |-> c, failed |-> c.split \/ ~c.parses,
                         within |-> c.split \/ within, went |-> went]]
     IN /\ Commit([Cur EXCEPT !.reading = r,
                               !.exc = IF c.split THEN "UnicodeDecodeError" ELSE "none"],
                  "read_chunk", hist.rc)
        /\ rthread' = IF went = "raised" THEN "dead"
                      ELSE IF went = "returned" THEN "top" ELSE "recv"
  /\ UNCHANGED <<sthread, replay, nextId, faults, today, cfgVars, vs>>

\* The loop head of receive_data finds the flag cleared (by create_bulk's
\* OSError handler on another thread): break, None is returned.
ReadNotConnected ==
  /\ rthread = "recv"
  /\ ~connected
  /\ reading.pc = "loop"
  /\ Commit([Cur EXCEPT !.reading.pc = "returned", !.reading.result = "none",
                        !.reading.last.went = "returned"],
            "read_break", hist.rc)
  /\ rthread' = "top"
  /\ UNCHANGED <<sthread, replay, nextId, faults, today, cfgVars, vs>>

\* reconnect(): an iteration whose connect() succeeds, then the
\* SEND_RECONNECT package is queued.
ReconnectOk ==
  /\ rthread = "reconnecting"
  /\ replay.pc = "idle"
  /\ rthread' = "top"
  /\ replay' = [pc |-> "list", list |-> {}]
  /\ Commit([ConnectOk(ReopenSockets(Cur)) EXCEPT
               !.queue = Append(@, [msg |-> "reconnect", id |-> 0])],
            "reconnect",
            IF hist.rc.phase = "fault" THEN [hist.rc EXCEPT !.phase = "await"]
            ELSE hist.rc)
  /\ UNCHANGED <<sthread, nextId, faults, today, cfgVars, vs>>

\* An inbound PUT/GET/DELETE request for a known target: the handler queues
\* the success reply.
RecvRequest(cap) ==
  /\ rthread = "recv"
  /\ link = "up"
  /\ Len(sending_queue) < MaxQueue
  /\ nextId < cap
  /\ nextId' = nextId + 1
  /\ rthread' = "top"
  /\ Commit([Cur EXCEPT !.queue = Append(@, [msg |-> "success", id |-> nextId + 1])],
            "recv_request", hist.rc)
  /\ UNCHANGED <<sthread, replay, faults, today, cfgVars, vs>>

ReplyShapes == {"error", "value_absent", "value_true"}

\* receive() on an error frame or a result frame with id.
\* result_value = True is subscripted: TypeError, not caught on the way out.
\* (inbound.reply: the id of the frame, an observation.)
Receive(s0, id, shape) ==
  LET s == [s0 EXCEPT !.inbound.reply = id]
  IN IF shape = "value_true"
     THEN [s EXCEPT !.exc = "TypeError", !.unacked = @ \ {id}]
     ELSE [s EXCEPT !.pend = RemoveIdFromConfirmList(@, id), !.unacked = @ \ {id}]

RecvReply(id, shape) ==
  /\ rthread = "recv"
  /\ link = "up"
  /\ id \in hist.unacked
  /\ LET s == Receive(Cur, id, shape)
     IN /\ Commit([s EXCEPT !.exc = "none"], "recv_reply", hist.rc)
        /\ rthread' = IF s.exc = "none" THEN "top" ELSE "dead"
  /\ UNCHANGED <<sthread, replay, nextId, faults, today, cfgVars, vs>>

\* send_thread: one package taken from sending_queue and handled.
SendThreadStep(cap) ==
  /\ sthread = "run"
  /\ sending_queue # <<>>
  /\ LET package == Head(sending_queue)
         s0 == [Cur EXCEPT !.queue = Tail(@)]
     IN \/ /\ package.msg \in {"success", "failed"}
           /\ LET s == CreateBulk(s0, IF package.msg = "success"
                                      THEN GetRpcSuccessResponse(package.id)
                                      ELSE GetRpcFailResponse(package.id))
              IN /\ Commit(s, IF package.msg = "success" THEN "send_success"
                              ELSE "send_failed", hist.rc)
                 /\ sthread' = IF s.exc = "none" THEN "run" ELSE "dead"
           /\ UNCHANGED nextId
        \/ /\ package.msg = "delete"
           /\ nextId < cap
           /\ nextId' = nextId + 1
           /\ LET s == SendDelete(s0, nextId + 1)
              IN /\ Commit(s, "send_delete", hist.rc)
                 /\ sthread' = IF s.exc = "none" THEN "run" ELSE "dead"
        \/ /\ package.msg = "reconnect"
           /\ nextId < cap
           /\ nextId' = nextId + 1
           /\ LET s == SendReconnect(s0, nextId + 1)
              IN /\ Commit(s, "send_reconnect", hist.rc)
                 /\ sthread' = IF s.exc = "none" THEN "run" ELSE "dead"
  /\ UNCHANGED <<rthread, replay, faults, today, cfgVars, vs>>

\* Network.delete (Value.delete) on the application's thread: a SEND_DELETE
\* package is queued.
Delete ==
  /\ Len(sending_queue) < MaxQueue
  /\ Commit([Cur EXCEPT !.queue = Append(@, [msg |-> "delete", id |-> 0])],
            "delete", hist.rc)
  /\ UNCHANGED <<rthread, sthread, replay, nextId, faults, today, cfgVars, vs>>

\* send_thread takes a SEND_RECONNECT package: send_reconnect up to the for
\* statement (create_trace, the announcement, iter() of the dict).  The loop
\* holds no lock; lock_await is held only inside add_id_to_confirm_list and
\* remove_id_from_confirm_list.
SendReconnectBegin(cap) ==
  /\ sthread = "run"
  /\ sending_queue # <<>>
  /\ Head(sending_queue).msg = "reconnect"
  /\ nextId < cap
  /\ nextId' = nextId + 1
  /\ LET s0 == CreateTrace([Cur EXCEPT !.queue = Tail(@)])
         s1 == IF s0.exc # "none" THEN s0 ELSE CreateBulk(s0, GetRpcNetwork(nextId + 1))
     IN IF s0.exc = "URLError"
        THEN /\ Commit([s0 EXCEPT !.connected = FALSE, !.exc = "none"],
                       "send_reconnect", hist.rc)
             /\ sthread' = "run"
        ELSE /\ Commit([s1 EXCEPT !.resend = [pc |-> "next", size0 |-> Len(s1.pend),
                                               seen |-> {}, element |-> 0]],
                       "send_reconnect", hist.rc)
             /\ sthread' = IF s1.exc = "none" THEN "loop" ELSE "dead"
  /\ UNCHANGED <<rthread, replay, faults, today, cfgVars, vs>>

\* The for statement asks the dict iterator for the next key: RuntimeError
\* when the dict has changed size since iter(); else the first key after those
\* it has passed, or the end of the loop.
ResendNext ==
  /\ sthread = "loop"
  /\ resend.pc = "next"
  /\ LET rest == SelectSeq(packet_awaiting_confirm, LAMBDA e : e.id \notin resend.seen)
     IN IF Len(packet_awaiting_confirm) # resend.size0
        THEN /\ Commit([Cur EXCEPT !.resend.pc = "raised", !.exc = "RuntimeError"],
                       "resend_next", hist.rc)
             /\ sthread' = "dead"
        ELSE IF rest = <<>>
        THEN /\ Commit([Cur EXCEPT !.resend = NoResend], "resend_next", hist.rc)
             /\ sthread' = "run"
        ELSE /\ Commit([Cur EXCEPT !.resend.pc = "body",
                                    !.resend.element = rest[1].id,
                                    !.resend.seen = @ \cup {rest[1].id}],
                       "resend_next", hist.rc)
             /\ sthread' = "loop"
  /\ UNCHANGED <<rthread, replay, nextId, faults, today, cfgVars, vs>>

\* The loop body: self.packet_awaiting_confirm[element] (KeyError when the key
\* is gone), then create_bulk.
ResendBody ==
  /\ sthread = "loop"
  /\ resend.pc = "body"
  /\ IF resend.element \notin Ids(packet_awaiting_confirm)
     THEN /\ Commit([Cur EXCEPT !.resend.pc = "raised", !.exc = "KeyError"],
                    "resend_body", hist.rc)
          /\ sthread' = "dead"
     ELSE LET e == (SelectSeq(packet_awaiting_confirm,
                              LAMBDA x : x.id = resend.element))[1]
              s == CreateBulk(Cur, e)
          IN /\ Commit([s EXCEPT !.resend.pc = IF s.exc = "none" THEN "next" ELSE "raised"],
                       "resend_body", hist.rc)
             /\ sthread' = IF s.exc = "none" THEN "loop" ELSE "dead"
  /\ UNCHANGED <<rthread, replay, nextId, faults, today, cfgVars, vs>>

\* ------------------------------------- create_bulk, statement by statement
\* A thread enters create_bulk with a report envelope (send_state):
\* self.bulk_send_list.append(data).
BulkAppend(c, cap) ==
  /\ bulk_calls.pc[c] = "idle"
  /\ connected
  /\ nextId < cap
  /\ nextId' = nextId + 1
  /\ Commit([Cur EXCEPT !.bulk = Append(@, GetRpcState(nextId + 1, EnvLen)),
                        !.bulk_calls.pc[c] = "test"],
            "bulk_append", hist.rc)
  /\ UNCHANGED <<rthread, sthread, replay, faults, today, cfgVars, vs>>

\* The if statement of create_bulk.
BulkTest(c) ==
  /\ bulk_calls.pc[c] = "test"
  /\ Commit([Cur EXCEPT !.bulk_calls.pc[c] = IF FlushCondition(Cur) THEN "register"
                                             ELSE "idle"],
            "bulk_test", hist.rc)
  /\ UNCHANGED <<rthread, sthread, replay, nextId, faults, today, cfgVars, vs>>

\* send_data(self.bulk_send_list) up to the write: the stripping loop, then
\* the registering loop, or add_message when the session is not connected.
\* data is the list object bulk_send_list itself.
BulkRegister(c) ==
  /\ bulk_calls.pc[c] = "register"
  /\ LET data == StripLoop(bulk_send_list, 1)
         s == [Cur EXCEPT !.bulk = data]
     IN IF connected
        THEN Commit([s EXCEPT !.pend = RegisterAll(@, data),
                              !.bulk_calls.pc[c] = "write"],
                    "bulk_register", hist.rc)
        ELSE Commit([AddMessage(s, data) EXCEPT !.bulk_calls.pc[c] = "clear"],
                    "bulk_register", hist.rc)
  /\ UNCHANGED <<rthread, sthread, replay, nextId, faults, today, cfgVars, vs>>

\* json.dumps(data) and my_socket.send; an OSError goes to the handler of
\* create_bulk, which skips the clear.
BulkWrite(c) ==
  /\ bulk_calls.pc[c] = "write"
  /\ LET s == IF Len(bulk_send_list) > 0 THEN SocketSend(Cur, bulk_send_list) ELSE Cur
     IN IF s.exc = "OSError"
        THEN Commit([s EXCEPT !.connected = FALSE, !.exc = "none",
                              !.bulk_calls.pc[c] = "idle"],
                    "bulk_write", hist.rc)
        ELSE Commit([s EXCEPT !.bulk_calls.pc[c] = "clear",
                              !.bulk_calls.wire = @ \o Flatten(s.frames)],
                    "bulk_write", hist.rc)
  /\ UNCHANGED <<rthread, sthread, replay, nextId, faults, today, cfgVars, vs>>

\* self.bulk_send_list.clear().
BulkClear(c) ==
  /\ bulk_calls.pc[c] = "clear"
  /\ Commit([Cur EXCEPT !.bulk = <<>>, !.bulk_calls.pc[c] = "idle"],
            "bulk_clear", hist.rc)
  /\ UNCHANGED <<rthread, sthread, replay, nextId, faults, today, cfgVars, vs>>

\* send_log: get_logs.
ReplayList ==
  /\ replay.pc = "list"
  /\ replay' = IF log_offline /\ GetLogs(files) # {}
               THEN [pc |-> "files", list |-> GetLogs(files)]
               ELSE [pc |-> "idle", list |-> {}]
  /\ Commit(Cur, "replay_list", hist.rc)
  /\ UNCHANGED <<rthread, sthread, nextId, faults, today, cfgVars, vs>>

\* send_log: one file of the list (os.listdir gives no order): unzip, read
\* the lines, hand every element to create_bulk, remove the file.  A missing
\* file ends the task (FileNotFoundError is caught around the loop); any
\* other exception ends it with the file left in place.
ReplayFile(d) ==
  /\ replay.pc = "files"
  /\ d \in replay.list
  /\ IF files[d].kind = "none"
     THEN /\ Commit(Cur, "replay_file", hist.rc)
          /\ replay' = [pc |-> "idle", list |-> {}]
     ELSE LET fs1 == GetTextLog(files, d)
              s == ReplayLines([Cur EXCEPT !.files = fs1], fs1[d].lines)
              missing == s.files[d].kind = "none"
              s1 == IF s.exc = "none" THEN [s EXCEPT !.files[d] = NoFile] ELSE s
          IN /\ Commit(s1, "replay_file", hist.rc)
             /\ replay' = IF s.exc # "none" \/ missing \/ replay.list = {d}
                          THEN [pc |-> "idle", list |-> {}]
                          ELSE [replay EXCEPT !.list = @ \ {d}]
  /\ UNCHANGED <<rthread, sthread, nextId, faults, today, cfgVars, vs>>

\* Midnight passes.
NextDay ==
  /\ today < MaxDay
  /\ today' = today + 1
  /\ UNCHANGED <<connVars, files, cfgVars, hist, vs>>

\* ------------------------------------------------------------- start-up
\* get_rpc_state(None, ..., get=True): a GET request for a control state.
GetRpcStateGet(id) == Env(id, "GET", EnvLen)
\* get_rpc_whole_json: the snapshot of the network, a POST request.
GetRpcWholeJson(id) == Env(id, "POST", EnvLen)

\* get_control.
GetControl(s, id) == CreateBulk(s, GetRpcStateGet(id))

\* The loop of initialize_all over the values that have a control state.
RECURSIVE GetControls(_, _, _)
GetControls(s, id, n) ==
  IF n = 0 \/ s.exc # "none" THEN s
  ELSE GetControls(GetControl(s, id), id + 1, n - 1)

\* connect() on the owner's thread, before the two threads exist.
Connect ==
  /\ rthread = "off"
  /\ my_socket # NoSocket
  /\ ~connected
  /\ boot.pc = "off"
  /\ replay.pc = "idle"
  /\ Commit(ConnectOk(Cur), "connect", hist.rc)
  /\ replay' = [pc |-> "list", list |-> {}]
  /\ UNCHANGED <<rthread, sthread, nextId, faults, today, cfgVars, vs>>

\* initialize_all up to the call of confirm_initialize_all: a GET per control
\* state, then create_trace and the snapshot.
InitializeAll(n) ==
  /\ boot.pc = "off"
  /\ rthread = "off"
  /\ connected
  /\ LET s1 == CreateTrace(GetControls(Cur, nextId + 1, n))
         s2 == IF s1.exc # "none" THEN s1
               ELSE CreateBulk(s1, GetRpcWholeJson(nextId + n + 1))
     IN Commit([s2 EXCEPT !.boot = [pc |-> IF s2.exc = "none" THEN "await" ELSE "dead",
                                     gets |-> (nextId + 1)..(nextId + n),
                                     post |-> nextId + n + 1,
                                     answered |-> {}]],
               "initialize_all", hist.rc)
  /\ nextId' = nextId + n + 1
  /\ UNCHANGED <<rthread, sthread, replay, faults, today, cfgVars, vs>>

\* The shapes of a reply: an error, or a result whose value is absent, true,
\* or an object with meta and data.
BarrierShapes == ReplyShapes \cup {"value_object"}

\* confirm_initialize_all: the set is not empty, receive_message reads a reply
\* of the peer.  An exception receive lets through leaves initialize_all.
BarrierReply(id, shape) ==
  /\ boot.pc = "await"
  /\ packet_awaiting_confirm # <<>>
  /\ connected
  /\ link = "up"
  /\ id \in hist.written \ boot.answered
  /\ LET s == Receive(Cur, id, shape)
     IN Commit([s EXCEPT !.exc = "none",
                         !.boot.answered = @ \cup {id},
                         !.boot.pc = IF s.exc = "none" THEN "await" ELSE "dead"],
               "barrier_reply", hist.rc)
  /\ UNCHANGED <<rthread, sthread, replay, nextId, faults, today, cfgVars, vs>>

\* confirm_initialize_all: receive_message reads b'' and reconnect() runs on
\* the owner's thread (an iteration whose connect() succeeds).
BarrierFault ==
  /\ boot.pc = "await"
  /\ packet_awaiting_confirm # <<>>
  /\ connected
  /\ link = "down"
  /\ replay.pc = "idle"
  /\ replay' = [pc |-> "list", list |-> {}]
  /\ Commit([ConnectOk(ReopenSockets(Cur)) EXCEPT
               !.queue = Append(@, [msg |-> "reconnect", id |-> 0])],
            "barrier_fault", hist.rc)
  /\ UNCHANGED <<rthread, sthread, nextId, faults, today, cfgVars, vs>>

\* confirm_initialize_all: the set is empty, the loop ends.
BarrierReturn ==
  /\ boot.pc = "await"
  /\ packet_awaiting_confirm = <<>>
  /\ Commit([Cur EXCEPT !.boot.pc = "done"], "barrier_return", hist.rc)
  /\ UNCHANGED <<rthread, sthread, replay, nextId, faults, today, cfgVars, vs>>

\* The receive thread and the send thread start once initialize_all has
\* returned.
StartThreads ==
  /\ rthread = "off"
  /\ boot.pc = "done"
  /\ rthread' = "top"
  /\ sthread' = "run"
  /\ Commit(Cur, "start_threads", hist.rc)
  /\ UNCHANGED <<replay, nextId, faults, today, cfgVars, vs>>

\* create_bulk called with None (nothing is appended) or with an envelope
\* that holds nothing but None values.
CreateBulkCall(data) ==
  /\ Len(bulk_send_list) < MaxBatch
  /\ Commit(CreateBulk(Cur, data), "create_bulk", hist.rc)
  /\ UNCHANGED <<rthread, sthread, replay, nextId, faults, today, cfgVars, vs>>

\* The lines of all log files.
LogLines(fs) == SumSeq([d \in Days |-> Len(fs[d].lines)])

\* The same call while the log holds few lines.
CreateBulkOffline(data) ==
  /\ LogLines(files) < MaxLogEnv
  /\ CreateBulkCall(data)

\* ---------------------------------------------------------------- close
\* A value's periodic timer is started (a new Timer object after a cancel).
StartTimer(v) ==
  /\ timers[v] # "running"
  /\ Commit([Cur EXCEPT !.timers[v] = "running"], "start_timer", hist.rc)
  /\ UNCHANGED <<rthread, sthread, replay, nextId, faults, today, cfgVars, vs>>

\* The owner calls close().
CloseCall ==
  /\ hist.closes < MaxCloses
  /\ Commit(Close(Cur), "close", hist.rc)
  /\ UNCHANGED <<rthread, sthread, replay, nextId, faults, today, cfgVars, vs>>

\* What close() can change.
SessionState(s) ==
  <<s.connected, s.my_socket, s.my_raw_socket, s.handles, s.timers,
    s.queue, s.bulk, s.pend, s.files, s.exc>>

\* ------------------------------------------------------ inbound requests
Requests == {"PUT", "GET", "DELETE"}

\* The frames the peer may send: every JSON value is a frame.
InboundFrames ==
  {Frame("null", "none", "full", "unknown", "absent"),
   Frame("scalar", "none", "full", "unknown", "absent"),
   Frame("object", "none", "full", "unknown", "absent")}
  \cup {Frame("object", m, n, "unknown", "absent") :
          m \in Requests, n \in {"no_params", "no_data", "no_meta", "no_id"}}
  \cup {Frame("object", m, "full", tg, "number") :
          m \in Requests,
          tg \in {"unknown", "value", "report", "control", "device", "network"}}
  \cup {Frame("object", "PUT", "full", "value", p) : p \in {"absent", "text"}}

\* send_error: a SEND_FAILED package is queued.
SendError(s, text, return_id) ==
  [s EXCEPT !.queue = Append(@, [msg |-> "failed", id |-> return_id]),
            !.inbound.put = Append(@, [msg |-> "failed", id |-> return_id, text |-> text])]

\* send_success_reply: a SEND_SUCCESS package is queued.
SendSuccessReply(s, return_id) ==
  [s EXCEPT !.queue = Append(@, [msg |-> "success", id |-> return_id]),
            !.inbound.put = Append(@, [msg |-> "success", id |-> return_id, text |-> ""])]

\* The first try block of the three request handlers: a .get on None raises
\* AttributeError, which is caught (an error is logged, the handler returns);
\* a uuid of None makes the text of the debug line raise TypeError.
ParseExc(f) ==
  IF f.nest \in {"no_params", "no_data", "no_meta"} THEN "AttributeError"
  ELSE IF f.nest = "no_id" THEN "TypeError"
  ELSE "none"

\* incoming_control.  set_period(None) raises TypeError from int(); a text
\* that is no number raises ValueError, caught in set_period.  A meta.type
\* that is neither "value" nor "state" matches no branch.
IncomingControl(s, f, return_id) ==
  IF ParseExc(f) = "AttributeError" THEN s
  ELSE IF ParseExc(f) = "TypeError" THEN [s EXCEPT !.exc = "TypeError"]
  ELSE IF f.target = "unknown" THEN SendError(s, "Non-existing uuid provided", return_id)
  ELSE IF f.target = "value"
  THEN IF f.period = "absent" THEN [s EXCEPT !.exc = "TypeError"]
       ELSE SendSuccessReply(s, return_id)
  ELSE IF f.target = "control" THEN SendSuccessReply(s, return_id)
  ELSE IF f.target = "report" THEN SendError(s, "Element is not control state", return_id)
  ELSE s

\* incoming_report_request.
IncomingReportRequest(s, f, return_id) ==
  IF ParseExc(f) = "AttributeError" THEN s
  ELSE IF ParseExc(f) = "TypeError" THEN [s EXCEPT !.exc = "TypeError"]
  ELSE IF f.target = "unknown" THEN SendError(s, "Non-existing uuid provided", return_id)
  ELSE IF f.target = "report" THEN SendSuccessReply(s, return_id)
  ELSE IF f.target \in {"device", "network"}
  THEN SendError(s, "Attribute error encountered", return_id)
  ELSE SendError(s, "Element is not control state", return_id)

\* incoming_delete_request.
IncomingDeleteRequest(s, f, return_id) ==
  IF ParseExc(f) = "AttributeError" THEN s
  ELSE IF ParseExc(f) = "TypeError" THEN [s EXCEPT !.exc = "TypeError"]
  ELSE IF f.target = "unknown" THEN SendError(s, "Non-existing uuid provided", return_id)
  ELSE SendSuccessReply(s, return_id)

\* receive, for a frame that is no reply: decoded.get('id') is outside the
\* try block, and the try block catches ValueError only.
ReceiveFrame(s, f, return_id) ==
  IF f.top = "null" THEN s
  ELSE IF f.top = "scalar" THEN [s EXCEPT !.exc = "AttributeError"]
  ELSE IF f.method = "PUT" THEN IncomingControl(s, f, return_id)
  ELSE IF f.method = "GET" THEN IncomingReportRequest(s, f, return_id)
  ELSE IF f.method = "DELETE" THEN IncomingDeleteRequest(s, f, return_id)
  ELSE SendError(s, "Unknown method", return_id)

\* The value's settings after set_period and set_delta of a PUT that names
\* the value (a text that is no number leaves the period as it was).
SetPeriodDelta(v, f) ==
  IF f.top = "object" /\ f.method = "PUT" /\ f.nest = "full" /\ f.target = "value"
     /\ f.period # "absent"
  THEN [v EXCEPT !.period = IF f.period = "number" THEN 2 ELSE @, !.delta = 5]
  ELSE v

\* receive_message on the receive thread: a frame is read and dispatched.  An
\* exception that receive lets through ends receive_thread.
RecvFrame(f, cap) ==
  /\ rthread = "recv"
  /\ link = "up"
  /\ Len(sending_queue) < MaxQueue
  /\ nextId < cap
  /\ nextId' = nextId + 1
  /\ LET s == ReceiveFrame([Cur EXCEPT !.inbound.frame = f], f, nextId + 1)
     IN /\ Commit(s, "recv_frame", hist.rc)
        /\ rthread' = IF s.exc = "none" THEN "top" ELSE "dead"
  /\ vs' = SetPeriodDelta(vs, f)
  /\ UNCHANGED <<sthread, replay, faults, today, cfgVars>>

\* ------------------------------------------------- reconnect(retry_limit)
RetryLimits == {NoLimit} \cup (0..MaxRetry)

\* reconnect is called: the status is set, the flag is cleared, attempt = 0.
ReconnectCall(limit) ==
  /\ recon.pc = "off"
  /\ Commit([Cur EXCEPT !.connected = FALSE,
                        !.recon = [NoRecon EXCEPT !.pc = "head", !.limit = limit]],
            "reconnect_call", hist.rc)
  /\ UNCHANGED <<rthread, sthread, replay, nextId, faults, today, cfgVars, vs>>

\* while not self.connected and (retry_limit is None or retry_limit > attempt):
\* the test, then attempt += 1.
ReconnectHead ==
  /\ recon.pc = "head"
  /\ Commit([Cur EXCEPT !.recon =
               IF ~connected /\ (recon.limit = NoLimit \/ recon.limit > recon.attempt)
               THEN [recon EXCEPT !.pc = "body", !.attempt = @ + 1]
               ELSE [recon EXCEPT !.pc = "after"]],
            "reconnect_head", hist.rc)
  /\ UNCHANGED <<rthread, sthread, replay, nextId, faults, today, cfgVars, vs>>

\* The loop body: sleep, close(), set_sockets(), connect().  connect() clears
\* the flag and sets it again when the peer is reached (ok); every exception
\* of the attempt is caught inside connect().
ReconnectAttempt(ok) ==
  /\ recon.pc = "body"
  /\ ok => replay.pc = "idle"
  /\ ~ok => (recon.limit # NoLimit \/ recon.attempt < MaxAttempts)
  /\ LET s == ReopenSockets(Cur)
         s1 == IF ok THEN ConnectOk(s) ELSE s
     IN Commit([s1 EXCEPT !.recon.pc = "head", !.recon.made = Append(@, ok)],
               "reconnect_attempt", hist.rc)
  /\ replay' = IF ok THEN [pc |-> "list", list |-> {}] ELSE replay
  /\ UNCHANGED <<rthread, sthread, nextId, faults, today, cfgVars, vs>>

\* After the loop: if self.connected is True the SEND_RECONNECT package is
\* queued, else ServerConnectionException is raised.
ReconnectAfter ==
  /\ recon.pc = "after"
  /\ Commit(IF connected
            THEN [Cur EXCEPT !.queue = Append(@, [msg |-> "reconnect", id |-> 0]),
                             !.recon.pc = "done"]
            ELSE [Cur EXCEPT !.recon.pc = "raised", !.recon.raised = TRUE],
            "reconnect_after", hist.rc)
  /\ UNCHANGED <<rthread, sthread, replay, nextId, faults, today, cfgVars, vs>>

\* ------------------------------------------------- the report scheduler
\* period=None, delta=None: the setting is absent.
None == 0

\* The values state.data takes, in this order.
Samples == <<10, 12, 16, 16, 21>>
DeltaChoices == {None, 5}
PeriodChoices == {None, 2}

Abs(x) == IF x < 0 THEN 0 - x ELSE x

\* No set_period or set_delta call made yet.
NoCall == [op |-> "none", arg |-> 0, before |-> 0, exc |-> "none"]

\* Value.__init__ at clock t0, with a numeric report state holding Samples[1].
\* (report: report_state is set; number: data_type == "number"; a delta that
\* is no whole number is held as delta, its whole part, which is what
\* int(self.delta) yields, and frac, the tenths that int() drops.)
InitValue(delta, period, t0) ==
  [pc |-> "off", data |-> Samples[1], idx |-> 1, value |-> Samples[1],
   report |-> TRUE, number |-> TRUE, call |-> NoCall,
   difference |-> 0, delta_report |-> 0, delta |-> delta, period |-> period,
   frac |-> 0,
   last_update_of_report |-> t0, now |-> t0,
   obs |-> <<>>, fired |-> {},
   tick |-> [seen |-> FALSE, at |-> 0, since |-> 0, period_sent |-> FALSE,
             delta_sent |-> FALSE, dirty |-> 0, gap |-> 0]]

\* The change detection at the head of the loop of __send_report_thread, as
\* the cumulative rule would have it: the difference adds up.
ObserveCumulative(v) ==
  IF v.value # v.data
  THEN [v EXCEPT !.difference = @ + Abs(v.value - v.data), !.value = v.data,
                 !.delta_report = 1]
  ELSE v

\* The change detection at the head of the loop of __send_report_thread.
Observe(v) ==
  IF v.value # v.data
  THEN [v EXCEPT !.difference = Abs(v.value - v.data), !.value = v.data,
                 !.delta_report = 1]
  ELSE v

\* The condition of __send_report_delta: int(self.difference) >=
\* int(self.delta), and the flag.
DeltaDue(v) == v.difference >= v.delta /\ v.delta_report = 1

\* __date_converter: timetuple() keeps whole seconds only.
DateConverter(t) == t \div SubSec

\* The condition of the period rule.
PeriodDue(v) == DateConverter(v.last_update_of_report) + v.period <= DateConverter(v.now)

\* The report thread starts, delay clock units after the constructor ran.
ThreadStart(delay) ==
  /\ vs.pc = "off"
  /\ vs' = [vs EXCEPT !.pc = "run", !.value = vs.data, !.now = @ + delay]
  /\ UNCHANGED <<connVars, logVars, cfgVars, hist>>

\* The report state's data becomes the next sample.
SetData ==
  /\ vs.idx < Len(Samples)
  /\ vs' = [vs EXCEPT !.idx = @ + 1, !.data = Samples[vs.idx + 1]]
  /\ UNCHANGED <<connVars, logVars, cfgVars, hist>>

\* One iteration of the loop of __send_report_thread, then time.sleep(1),
\* which takes adv clock units.  An exception send_state lets through ends
\* the thread (the handler of the period rule raises in its own join call).
Tick(adv) ==
  /\ vs.pc = "run"
  /\ Len(vs.obs) < MaxTicks
  /\ LET v1 == Observe(vs)
         dsend == v1.delta # None /\ DeltaDue(v1)
         s1 == IF dsend THEN SendState(Cur, nextId + 1, EnvLen) ELSE Cur
         v2 == IF ~dsend THEN v1
               ELSE IF s1.exc = "none"
               THEN [v1 EXCEPT !.last_update_of_report = v1.now, !.delta_report = 0]
               ELSE [v1 EXCEPT !.last_update_of_report = v1.now]
         psend == s1.exc = "none" /\ v2.period # None /\ PeriodDue(v2)
         id2 == IF dsend THEN nextId + 2 ELSE nextId + 1
         s2 == IF psend THEN SendState(s1, id2, EnvLen) ELSE s1
         v3 == IF psend THEN [v2 EXCEPT !.last_update_of_report = v2.now] ELSE v2
     IN /\ vs' = [v3 EXCEPT
                    !.pc = IF s2.exc = "none" THEN "run" ELSE "dead",
                    !.now = @ + adv,
                    !.obs = Append(@, vs.data),
                    !.fired = IF dsend THEN @ \cup {Len(vs.obs) + 1} ELSE @,
                    !.tick = [seen |-> TRUE, at |-> v2.now,
                              since |-> v2.last_update_of_report,
                              period_sent |-> psend,
                              delta_sent |-> dsend, dirty |-> v1.delta_report,
                              gap |-> Abs(vs.value - vs.data)]]
        /\ nextId' = nextId + (IF dsend THEN 1 ELSE 0) + (IF psend THEN 1 ELSE 0)
        /\ Commit(s2, "tick", hist.rc)
  /\ UNCHANGED <<rthread, sthread, replay, faults, today, cfgVars>>

\* ------------------------------------------------- set_period, set_delta
\* What a caller may hand over: None, a text that is no number, a number as
\* int, as float, or as the text of one ("5", "2.5").  n10 is the number in
\* tenths.
NoneArg == [kind |-> "none", n10 |-> 0]
TextArg == [kind |-> "text", n10 |-> 0]
Args ==
  {NoneArg, TextArg}
  \cup {[kind |-> k, n10 |-> 10 * n] : k \in {"int", "str_int"}, n \in (0 - 1)..MaxArg}
  \cup {[kind |-> k, n10 |-> 10 * n + 5] : k \in {"float", "str_dec"}, n \in (0 - 1)..MaxArg}

\* int(x): TypeError for None, ValueError for a text that is not an integer
\* literal ("abc", "2.5"), truncation towards zero for a float.
PyInt(x) ==
  CASE x.kind = "none" -> [exc |-> "TypeError", val |-> 0]
    [] x.kind \in {"text", "str_dec"} -> [exc |-> "ValueError", val |-> 0]
    [] x.kind \in {"int", "str_int"} -> [exc |-> "none", val |-> x.n10 \div 10]
    [] x.kind = "float" ->
         [exc |-> "none",
          val |-> IF x.n10 >= 0 THEN x.n10 \div 10 ELSE 0 - ((0 - x.n10) \div 10)]

\* float(x), in tenths: TypeError for None, ValueError for a text that is no
\* number.
PyFloat(x) ==
  CASE x.kind = "none" -> [exc |-> "TypeError", val |-> 0]
    [] x.kind = "text" -> [exc |-> "ValueError", val |-> 0]
    [] OTHER -> [exc |-> "none", val |-> x.n10]

\* set_period: "get_report_state() is not None and int(period) > 0" inside a
\* try that catches ValueError.
SetPeriod(v, period) ==
  IF ~v.report THEN v
  ELSE LET r == PyInt(period)
       IN IF r.exc = "TypeError" THEN [v EXCEPT !.call.exc = "TypeError"]
          ELSE IF r.exc = "ValueError" THEN v
          ELSE IF r.val > 0 THEN [v EXCEPT !.period = period]
          ELSE v

\* set_delta: "__is_number_type() and get_report_state() and float(delta) > 0"
\* inside a try that catches ValueError.
SetDelta(v, delta) ==
  IF ~v.number \/ ~v.report THEN v
  ELSE LET r == PyFloat(delta)
       IN IF r.exc = "TypeError" THEN [v EXCEPT !.call.exc = "TypeError"]
          ELSE IF r.exc = "ValueError" THEN v
          ELSE IF r.val > 0 THEN [v EXCEPT !.delta = delta]
          ELSE v

\* The application (or incoming_control) calls set_period.
SetPeriodCall(period) ==
  /\ vs' = SetPeriod([vs EXCEPT !.call = [op |-> "set_period", arg |-> period,
                                           before |-> vs.period, exc |-> "none"]],
                     period)
  /\ UNCHANGED <<connVars, logVars, cfgVars, hist>>

\* The application (or incoming_control) calls set_delta.
SetDeltaCall(delta) ==
  /\ vs' = SetDelta([vs EXCEPT !.call = [op |-> "set_delta", arg |-> delta,
                                         before |-> vs.delta, exc |-> "none"]],
                    delta)
  /\ UNCHANGED <<connVars, logVars, cfgVars, hist>>

\* The application calls set_delta with a number of at least one while the
\* report thread runs.
SetDeltaNumber(delta) ==
  /\ delta.kind \in {"int", "float"}
  /\ delta.n10 >= 10
  /\ LET v == SetDelta(vs, delta)
     IN vs' = IF v.delta = delta
              THEN [vs EXCEPT !.delta = PyInt(delta).val, !.frac = delta.n10 % 10]
              ELSE vs
  /\ UNCHANGED <<connVars, logVars, cfgVars, hist>>

\* ------------------------------------------------------------ the session
NoHist ==
  [step |-> "init", calls |-> <<>>, frames |-> <<>>, attempts |-> <<>>,
   handed |-> <<>>, adds |-> 0,
   replayed |-> <<>>, exc |-> "none", pend0 |-> <<>>, bulk0 |-> <<>>,
   written |-> {}, unacked |-> {}, stored |-> {}, evicted |-> {}, rc |-> NoRc,
   inbound |-> NoInbound, closes |-> 0]

NoValue == InitValue(None, None, 0)

InitConn ==
  /\ connected = FALSE
  /\ link = "down"
  /\ sending_queue = <<>>
  /\ bulk_send_list = <<>>
  /\ packet_awaiting_confirm = <<>>
  /\ rthread = "off"
  /\ sthread = "off"
  /\ replay = [pc |-> "idle", list |-> {}]
  /\ nextId = 0
  /\ faults = 0
  /\ files = [d \in Days |-> NoFile]
  /\ today = 1
  /\ hist = NoHist
  /\ handles = NewHandle(NewHandle(<<>>, "raw"), "tls")
  /\ my_raw_socket = 1
  /\ my_socket = 2
  /\ timers = [v \in Values |-> "new"]
  /\ boot = NoBoot
  /\ recon = NoRecon
  /\ resend = NoResend
  /\ bulk_calls = NoBulkCalls
  /\ strip = NoStrip
  /\ reading = NoReading

Init ==
  /\ InitConn
  /\ log_offline \in BOOLEAN
  /\ log_data_limit = RoomyLimit
  /\ limit_action = REMOVE_OLD
  /\ lines_to_remove = 1
  /\ automatic_trace = FALSE
  /\ tracer = "up"
  /\ vs = NoValue

Next ==
  \/ Update(EnvLen, MaxEnv)
  \/ Start
  \/ BreakLink
  \/ RecvEnter
  \/ RecvEmpty
  \/ ReconnectOk
  \/ RecvRequest(MaxEnv)
  \/ \E id \in 1..MaxEnv, shape \in ReplyShapes : RecvReply(id, shape)
  \/ SendThreadStep(MaxEnv)
  \/ ReplayList
  \/ \E d \in Days : ReplayFile(d)
  \/ NextDay

Spec == Init /\ [][Next]_vars

\* The session within one calendar day.
NextReplay ==
  \/ Update(EnvLen, MaxEnv)
  \/ Start
  \/ BreakLink
  \/ RecvEnter
  \/ RecvEmpty
  \/ ReconnectOk
  \/ RecvRequest(MaxEnv)
  \/ \E id \in 1..MaxEnv, shape \in ReplyShapes : RecvReply(id, shape)
  \/ SendThreadStep(MaxEnv)
  \/ ReplayList
  \/ \E d \in Days : ReplayFile(d)

SpecReplay == Init /\ [][NextReplay]_vars

\* The session when the offline log is disabled and the peer answers nothing:
\* the runs in which the batch fills up to MAX_BULK_SIZE.
InitCap ==
  /\ InitConn
  /\ log_offline = FALSE
  /\ log_data_limit = RoomyLimit
  /\ limit_action = REMOVE_OLD
  /\ lines_to_remove = 1
  /\ automatic_trace = FALSE
  /\ tracer = "up"
  /\ vs = NoValue

NextCap ==
  \/ Update(EnvLen, MaxEnvCap)
  \/ Start
  \/ BreakLink
  \/ RecvEnter
  \/ RecvEmpty
  \/ ReconnectOk
  \/ SendThreadStep(MaxEnvCap)
  \/ ReplayList

SpecCap == InitCap /\ [][NextCap]_vars

\* The session on a link that stays up, the peer answering requests and
\* sending none, the offline log disabled.  The threads are scheduled fairly:
\* the receive thread goes back to recv, the replay task runs; the send
\* thread waits on its empty queue.  The application and the peer owe nothing.
NextQuiet ==
  \/ Update(EnvLen, MaxEnvCap)
  \/ Start
  \/ RecvEnter
  \/ \E id \in 1..MaxEnvCap, shape \in ReplyShapes : RecvReply(id, shape)
  \/ ReplayList

SpecFair == InitCap /\ [][NextQuiet]_vars /\ WF_vars(RecvEnter) /\ WF_vars(ReplayList)

\* The offline log on its own: the session never connects, every update goes
\* to add_message, under each limit, policy and trim size.
LogLimits == {100, 200}

InitLog ==
  /\ InitConn
  /\ log_offline = TRUE
  /\ log_data_limit \in LogLimits
  /\ limit_action \in {REMOVE_OLD, REMOVE_RECENT}
  /\ lines_to_remove \in {1, 2}
  /\ automatic_trace = FALSE
  /\ tracer = "up"
  /\ vs = NoValue

NextLog ==
  \/ \E len \in {ShortLen, LongLen} : Update(len, MaxLogEnv)
  \/ NextDay

SpecLog == InitLog /\ [][NextLog]_vars

\* The session never connected, logging switched on or off, under each
\* limit, policy and trim size.
InitDrop ==
  /\ InitConn
  /\ log_offline \in BOOLEAN
  /\ log_data_limit \in LogLimits
  /\ limit_action \in {REMOVE_OLD, REMOVE_RECENT}
  /\ lines_to_remove \in {1, 2}
  /\ automatic_trace = FALSE
  /\ tracer = "up"
  /\ vs = NoValue

SpecDrop == InitDrop /\ [][NextLog]_vars

\* The log fills over several days under a byte limit, then the session
\* connects and send_log replays the files.
NextOrder ==
  \/ \E len \in {ShortLen, LongLen} : Update(len, MaxLogEnv)
  \/ NextDay
  \/ Start
  \/ ReplayList
  \/ \E d \in Days : ReplayFile(d)

SpecOrder == InitLog /\ [][NextOrder]_vars

\* One producer: the application reports on a connected session, the peer
\* answers, the link may fail; nothing is replayed.
NextFifo ==
  \/ Update(EnvLen, MaxEnvCap)
  \/ Start
  \/ BreakLink
  \/ RecvEnter
  \/ \E id \in 1..MaxEnvCap, shape \in ReplyShapes : RecvReply(id, shape)
  \/ ReplayList

SpecFifo == InitCap /\ [][NextFifo]_vars

\* The session never connected and logging, the batcher fed with reports,
\* with None and with envelopes that strip to nothing.
NextHollow ==
  \/ \E len \in {ShortLen, LongLen} : Update(len, MaxEnv)
  \/ \E data \in {NoData, Hollow} : CreateBulkOffline(data)
  \/ NextDay

SpecHollow == InitLog /\ [][NextHollow]_vars

\* The report thread of one value, the session not connected and not logging.
InitValues ==
  /\ InitConn
  /\ log_offline = FALSE
  /\ log_data_limit = RoomyLimit
  /\ limit_action = REMOVE_OLD
  /\ lines_to_remove = 1
  /\ automatic_trace = FALSE
  /\ tracer = "up"
  /\ vs \in {InitValue(d, p, t0) : d \in DeltaChoices, p \in PeriodChoices,
                                   t0 \in 0..(SubSec - 1)}

NextValues ==
  \/ \E delay \in 0..(SubSec - 1) : ThreadStart(delay)
  \/ SetData
  \/ \E adv \in {SubSec, SubSec + 1} : Tick(adv)

SpecValue == InitValues /\ [][NextValues]_vars

\* The owner's thread from connect() to the end of initialize_all, the peer
\* answering in any order, the link failing at any moment.
NextBoot ==
  \/ Connect
  \/ \E n \in 0..MaxControls : InitializeAll(n)
  \/ BreakLink
  \/ \E id \in 1..(MaxControls + 1), shape \in BarrierShapes : BarrierReply(id, shape)
  \/ BarrierFault
  \/ BarrierReturn
  \/ ReplayList

SpecBoot == Init /\ [][NextBoot]_vars

\* One reconnect call of the owner, under every limit, while a value is
\* updated on another thread and the link may fail once.
NextRetry ==
  \/ \E limit \in RetryLimits : ReconnectCall(limit)
  \/ ReconnectHead
  \/ \E ok \in BOOLEAN : ReconnectAttempt(ok)
  \/ ReconnectAfter
  \/ Update(EnvLen, MaxEnv)
  \/ BreakLink
  \/ ReplayList

SpecRetry == InitCap /\ [][NextRetry]_vars

\* The receive thread on a link that stays up, the peer sending any frame.
NextInbound ==
  \/ Start
  \/ RecvEnter
  \/ \E f \in InboundFrames : RecvFrame(f, MaxEnv)
  \/ ReplayList

SpecInbound == InitCap /\ [][NextInbound]_vars

\* The session with its timers, the owner calling close() at any moment.
NextClose ==
  \/ Start
  \/ BreakLink
  \/ RecvEnter
  \/ RecvEmpty
  \/ ReconnectOk
  \/ Update(EnvLen, MaxEnv)
  \/ \E v \in Values : StartTimer(v)
  \/ CloseCall
  \/ ReplayList

SpecClose == InitCap /\ [][NextClose]_vars

\* The batcher fed with envelopes that strip to nothing, between reports
\* and their replies.
NextStrip ==
  \/ Start
  \/ Update(EnvLen, MaxEnv)
  \/ \E data \in {NoData, Hollow} : CreateBulkCall(data)
  \/ RecvEnter
  \/ \E id \in 1..MaxEnv, shape \in ReplyShapes : RecvReply(id, shape)
  \/ ReplayList

SpecStrip == InitCap /\ [][NextStrip]_vars

\* The session with automatic traces, the trace endpoint reachable or not.
InitTrace ==
  /\ InitConn
  /\ log_offline = FALSE
  /\ log_data_limit = RoomyLimit
  /\ limit_action = REMOVE_OLD
  /\ lines_to_remove = 1
  /\ automatic_trace = TRUE
  /\ tracer \in {"up", "down"}
  /\ vs = NoValue

NextTrace ==
  \/ Update(EnvLen, MaxEnv)
  \/ Start
  \/ BreakLink
  \/ RecvEnter
  \/ RecvEmpty
  \/ ReconnectOk
  \/ SendThreadStep(MaxEnv)
  \/ ReplayList

SpecTrace == InitTrace /\ [][NextTrace]_vars

\* Two requests of the peer: a GET for an unknown uuid (answered with an
\* error) and a PUT for a control state (answered with a success).
AckFrames ==
  {Frame("object", "GET", "full", "unknown", "number"),
   Frame("object", "PUT", "full", "control", "number")}

\* The session from start-up (the GETs and the snapshot) on: the two threads,
\* reports and deletes of the application, requests and replies of the peer,
\* a link that may fail.
NextAck ==
  \/ Connect
  \/ \E n \in 0..MaxControls : InitializeAll(n)
  \/ \E id \in 1..(MaxControls + 1), shape \in BarrierShapes : BarrierReply(id, shape)
  \/ BarrierReturn
  \/ StartThreads
  \/ Update(EnvLen, MaxEnv)
  \/ Delete
  \/ BreakLink
  \/ RecvEnter
  \/ \E f \in AckFrames : RecvFrame(f, MaxEnv)
  \/ \E id \in 1..MaxEnv, shape \in ReplyShapes : RecvReply(id, shape)
  \/ SendThreadStep(MaxEnv)
  \/ ReplayList

SpecAck == InitCap /\ [][NextAck]_vars

\* The session with replies of the peer and the replay after a reconnect,
\* the owner calling close() at any moment.
NextPending ==
  \/ Start
  \/ Update(EnvLen, MaxEnv)
  \/ BreakLink
  \/ RecvEnter
  \/ RecvEmpty
  \/ ReconnectOk
  \/ \E id \in 1..MaxEnv, shape \in ReplyShapes : RecvReply(id, shape)
  \/ SendThreadStep(MaxEnv)
  \/ CloseCall
  \/ ReplayList

SpecPending == InitCap /\ [][NextPending]_vars

\* The loop of send_reconnect statement by statement, the receive thread and
\* the application running beside it.
NextResend ==
  \/ Start
  \/ Update(EnvLen, MaxEnv)
  \/ BreakLink
  \/ RecvEnter
  \/ RecvEmpty
  \/ ReconnectOk
  \/ \E id \in 1..MaxEnv, shape \in ReplyShapes : RecvReply(id, shape)
  \/ SendReconnectBegin(MaxEnv)
  \/ ResendNext
  \/ ResendBody
  \/ ReplayList

SpecResend == InitCap /\ [][NextResend]_vars

\* Threads calling create_bulk beside each other on a connected session, the
\* peer answering.
NextBulk ==
  \/ Start
  \/ \E c \in Callers : BulkAppend(c, MaxEnv)
  \/ \E c \in Callers : BulkTest(c)
  \/ \E c \in Callers : BulkRegister(c)
  \/ \E c \in Callers : BulkWrite(c)
  \/ \E c \in Callers : BulkClear(c)
  \/ BreakLink
  \/ RecvEnter
  \/ \E id \in 1..MaxEnv, shape \in ReplyShapes : RecvReply(id, shape)
  \/ ReplayList

SpecBulk == InitCap /\ [][NextBulk]_vars

\* The session on a link that may fail, the application reporting.  The
\* receive thread is scheduled fairly (it enters recv whenever it is
\* connected, a read on a dead link returns, its reconnect loop goes on), and
\* so is the send_log task; the application owes nothing.
NextFault ==
  \/ Start
  \/ Update(EnvLen, MaxEnv)
  \/ BreakLink
  \/ RecvEnter
  \/ RecvEmpty
  \/ ReconnectOk
  \/ ReplayList

SpecFault ==
  /\ InitCap
  /\ [][NextFault]_vars
  /\ WF_vars(RecvEnter) /\ WF_vars(RecvEmpty) /\ WF_vars(ReconnectOk)
  /\ WF_vars(ReplayList)

\* The report thread of one value whose delta the application changes.
NextDelta ==
  \/ ThreadStart(0)
  \/ SetData
  \/ Tick(SubSec)
  \/ \E delta \in Args : SetDeltaNumber(delta)

\* (The period is unset: the delta rule is alone.)
InitDelta ==
  /\ InitValues
  /\ vs.period = None
  /\ vs.now = 0

SpecDelta == InitDelta /\ [][NextDelta]_vars

\* receive_data reading a stream chunk by chunk, while the application
\* reports and the link may fail.
NextChunks ==
  \/ Start
  \/ Update(EnvLen, 1)
  \/ BreakLink
  \/ RecvEnter
  \/ RecvEmpty
  \/ ReconnectOk
  \/ ReplayList
  \/ \E c \in Chunks : ReadChunk(c)
  \/ ReadNotConnected

SpecChunks == InitCap /\ [][NextChunks]_vars

\* send_data's stripping of every batch of nested envelopes.
NextJson == \E data \in Batches : SendDataStrip(data)

SpecJson == InitCap /\ [][NextJson]_vars

\* A value of any data type, with or without a report state, period and
\* delta unset or set, whose set_period and set_delta are called with every
\* argument.
InitSettings ==
  /\ InitConn
  /\ log_offline = FALSE
  /\ log_data_limit = RoomyLimit
  /\ limit_action = REMOVE_OLD
  /\ lines_to_remove = 1
  /\ automatic_trace = FALSE
  /\ tracer = "up"
  /\ vs \in {[InitValue(d, p, 0) EXCEPT !.report = r, !.number = n] :
               d \in {NoneArg, [kind |-> "float", n10 |-> 5]},
               p \in {NoneArg, [kind |-> "int", n10 |-> 10]},
               r \in BOOLEAN, n \in BOOLEAN}

NextSettings ==
  \/ \E period \in Args : SetPeriodCall(period)
  \/ \E delta \in Args : SetDeltaCall(delta)

SpecSettings == InitSettings /\ [][NextSettings]_vars

\* --------------------------------------------------------------- claims
Count(q, id) == Cardinality({i \in 1..Len(q) : q[i].id = id})

\* C1: in every create_bulk call the batch is flushed (send_data invoked on
\* it and the batch empty afterwards) exactly when, right after the append,
\* the queue and the pending set are empty or the batch holds 10 envelopes.
C1_FlushedExactlyOnCondition ==
  \A i \in 1..Len(hist.calls) :
    LET c == hist.calls[i]
    IN (c.invoked /\ c.emptied)
         <=> ((c.qlen = 0 /\ c.plen = 0) \/ c.blen >= MAX_BULK_SIZE)

\* C2: every envelope add_message stored and the overflow policy did not
\* evict is in a log file, in the batch, or was written to the socket.
C2_LoggedDeliveredAtLeastOnce ==
  \A id \in hist.stored \ hist.evicted :
    \/ id \in FileIds(files)
    \/ id \in Ids(bulk_send_list)
    \/ id \in hist.written

\* C3: the first frame written after a zero-length read while connected and
\* the connect that follows holds a reconnect announcement and, after it,
\* every envelope pending at the fault.
C3_AnnouncementThenPending ==
  hist.rc.phase = "seen" =>
    LET f == hist.rc.frame
        ann == {i \in 1..Len(f) : f[i].method = "POST"}
    IN /\ ann # {}
       /\ \A k \in 1..Len(hist.rc.pend) :
            \E i \in 1..Len(f) :
              /\ f[i] = hist.rc.pend[k]
              /\ \E a \in ann : a < i

\* C4: one send_reconnect pass batches each pending id exactly once.
C4_ReplayOncePerPendingId ==
  hist.step = "send_reconnect" =>
    \A k \in 1..Len(hist.pend0) :
      Count(Flatten(hist.frames) \o bulk_send_list, hist.pend0[k].id) = 1

\* C5: an id is pending iff its PUT/POST/DELETE envelope was transmitted and
\* no reply or error with that id was received since.
C5_PendingIffTransmittedUnanswered ==
  Ids(packet_awaiting_confirm) = hist.unacked

\* C6: a batch that holds envelopes when the queue has drained and every
\* pending id is resolved is flushed in the end, whether or not anything is
\* enqueued again.
C6_BatchEventuallyFlushed ==
  (sending_queue = <<>> /\ packet_awaiting_confirm = <<>> /\ bulk_send_list # <<>>)
    ~> (bulk_send_list = <<>>)

\* C7: send_log hands create_bulk, line by line, the envelopes of the batch
\* add_message stored, in the order a live send would have written them.
C7_ReplayEqualsLiveBatch ==
  hist.step = "replay_file" =>
    \A i \in 1..Len(hist.replayed) : hist.replayed[i].handed = hist.replayed[i].src

C7_Witness ==
  /\ hist.step = "replay_file"
  /\ connected
  /\ hist.frames # <<>>
  /\ \E i \in 1..Len(hist.replayed) : Len(hist.replayed[i].handed) >= 2

\* C8: after every add_message call the files of the log directory take no
\* more bytes than log_data_limit.
C8_LogWithinLimit ==
  (hist.step = "update" /\ log_offline) => DirSize(files, DOMAIN files) <= log_data_limit

\* C9 (as the code has it): with period unset, delta 5 and the ticks observing
\* 10, 12, 16, 16, 21, exactly one delta report is sent, at the tick observing
\* 21: the rule compares each sample with the sample observed before it.
C9_Scenario ==
  /\ vs.delta = 5
  /\ vs.period = None
  /\ vs.obs = Samples

C9_OneReportAtLastSample == C9_Scenario => vs.fired = {5}

C9_Witness == C9_Scenario /\ vs.fired # {}

\* C9 (as stated): in that scenario two delta reports are sent, at the tick
\* observing the first 16 and at the tick observing 21.
C9_TwoCumulativeReports == C9_Scenario => vs.fired = {3, 5}

\* C10: a period report is sent at a tick exactly when the time since the
\* last-report timestamp has reached the period, so that two period reports
\* are never less than the period apart.
C10_PeriodReportExactlyWhenDue ==
  (vs.tick.seen /\ vs.period # None) =>
    (vs.tick.period_sent <=> vs.tick.at - vs.tick.since >= vs.period * SubSec)

\* C11: confirm_initialize_all returns only after every GET that
\* initialize_all sent for a control state was answered by the peer.
C11_BarrierWaitsForEveryGet ==
  boot.pc = "done" => boot.gets \subseteq boot.answered

\* C12: a read that returns no bytes (or raises a reset / OS error) while the
\* session is connected starts reconnect and dispatches nothing: the flag is
\* cleared, nothing is batched, written or resolved in that step; reconnect
\* closes the old sockets before it builds the new ones, so no socket is made
\* beside an open one and only the current handles are open.
C12_ReadFaultReconnects ==
  /\ hist.step = "recv_empty" =>
       /\ rthread = "reconnecting"
       /\ ~connected
       /\ hist.calls = <<>> /\ hist.frames = <<>>
       /\ packet_awaiting_confirm = hist.pend0
       /\ bulk_send_list = hist.bulk0
  /\ \A i \in 1..Len(handles) :
       /\ ~handles[i].beside
       /\ handles[i].state = "open" => i \in {my_socket, my_raw_socket}

C12_Witness ==
  /\ hist.step = "reconnect"
  /\ hist.rc.phase = "await"
  /\ connected
  /\ Len(handles) = 4
  /\ handles[1].state = "closed" /\ handles[2].state = "closed"

\* C13: a reconnect call with limit N makes at most N connect attempts, none
\* after a successful one, and raises ServerConnectionException exactly when
\* all N attempts failed; a call without limit never raises and ends after a
\* successful attempt.
C13_ReconnectWithinLimit ==
  LET made == recon.made
      failed == \A i \in 1..Len(made) : ~made[i]
  IN /\ recon.limit # NoLimit => Len(made) <= recon.limit
     /\ \A i \in 1..(Len(made) - 1) : ~made[i]
     /\ recon.pc = "raised" => recon.limit # NoLimit /\ Len(made) = recon.limit /\ failed
     /\ recon.pc = "done" => ~failed

\* C14: whatever frame was decoded, receive_message returns normally and the
\* receive loop goes on: no frame ends the receive thread.
C14_ReceiveLoopSurvivesFrame ==
  hist.step = "recv_frame" => rthread # "dead"

\* C15: every PUT, GET or DELETE request with params, data, meta or id
\* missing is answered with an "incorrect format" error reply that carries
\* the id of the request.
C15_MalformedRequestGetsErrorReply ==
  (/\ hist.step = "recv_frame"
   /\ hist.inbound.frame.method \in Requests
   /\ hist.inbound.frame.nest # "full")
    => \E i \in 1..Len(hist.inbound.put) :
         /\ hist.inbound.put[i].msg = "failed"
         /\ hist.inbound.put[i].id = nextId

C17_EmptyBatchWritesNothing ==
  \A i \in 1..Len(hist.calls) :
    LET c == hist.calls[i]
    IN (c.invoked /\ c.live /\ \A k \in 1..Len(c.batch) : c.batch[k] = Hollow)
         => hist.frames = <<>>

\* C18: when the trace beacon of an outbound operation fails, the request of
\* the operation is still batched (or written), the connection flag is as
\* before and the send thread goes on.
C18_TraceFailureDoesNotBlock ==
  (automatic_trace /\ tracer = "down") =>
    /\ hist.step = "update" =>
         nextId \in Ids(bulk_send_list) \cup Ids(Flatten(hist.frames))
    /\ hist.step = "send_reconnect" =>
         /\ nextId \in Ids(bulk_send_list) \cup Ids(Flatten(hist.frames))
         /\ connected
    /\ sthread # "dead"

\* C19: when a reply removes the last pending id while the queue is empty
\* and the batch holds envelopes, the batch is flushed in that same step.
C19_FlushOnLastResolve ==
  (/\ hist.step = "recv_reply"
   /\ hist.pend0 # <<>>
   /\ packet_awaiting_confirm = <<>>
   /\ sending_queue = <<>>
   /\ hist.bulk0 # <<>>)
    => (bulk_send_list = <<>> /\ hist.frames # <<>>)

\* C20: after every create_bulk call in which the flush condition held the
\* batch is empty, also when the socket write raised OSError.
C20_BatchClearedAfterFlushAttempt ==
  \A i \in 1..Len(hist.calls) :
    LET c == hist.calls[i]
    IN ((c.qlen = 0 /\ c.plen = 0) \/ c.blen >= MAX_BULK_SIZE) => c.emptied

\* C21: in every socket write of a flush on a connected session, each PUT,
\* POST or DELETE envelope of the data was pending when the write was called
\* and is pending after the step, whether or not the write raised; the pending
\* set never holds an envelope of another method (a GET, a reply).
C21_RegisteredBeforeWrite ==
  /\ \A i \in 1..Len(hist.attempts) :
       LET a == hist.attempts[i]
           mut == {a.data[j].id : j \in {k \in 1..Len(a.data) : Mutating(a.data[k])}}
       IN mut \subseteq a.pend /\ mut \subseteq Ids(packet_awaiting_confirm)
  /\ \A i \in 1..Len(packet_awaiting_confirm) : Mutating(packet_awaiting_confirm[i])

C21_Witness ==
  \E i \in 1..Len(hist.attempts) :
    LET a == hist.attempts[i]
    IN /\ ~a.ok
       /\ \E j, k \in 1..Len(a.data) :
            /\ Mutating(a.data[j]) /\ ~Mutating(a.data[k])
            /\ a.data[j].id \in Ids(packet_awaiting_confirm)
            /\ a.data[k].id \notin Ids(packet_awaiting_confirm)

\* C22: an envelope pending before a step is pending after it with the same
\* id, unless the step received a reply or an error that carries its id;
\* close(), connect() and reconnect() leave the pending set as it was; a
\* failed write removes nothing; every envelope the loop of send_reconnect
\* batches is one of the pending envelopes, id unchanged.
C22_PendingLeavesOnlyByReply ==
  /\ \A k \in 1..Len(hist.pend0) :
       (hist.step # "recv_reply" \/ hist.pend0[k].id # hist.inbound.reply)
         => hist.pend0[k] \in Range(packet_awaiting_confirm)
  /\ hist.step \in {"close", "start", "reconnect", "recv_empty"}
       => packet_awaiting_confirm = hist.pend0
  /\ hist.step = "send_reconnect" =>
       \A i \in 2..Len(hist.calls) :
         hist.calls[i].batch[Len(hist.calls[i].batch)] \in Range(packet_awaiting_confirm)

C22_Witness ==
  /\ hist.step = "send_reconnect"
  /\ hist.pend0 # <<>>
  /\ Len(hist.calls) >= 2
  /\ hist.rc.phase \in {"await", "seen"}
  /\ \A k \in 1..Len(hist.pend0) : hist.pend0[k] \in Range(bulk_send_list)

\* C23: while the send thread is inside the loop of send_reconnect, no step
\* of another thread (a resolve by the receive thread, a register by a
\* thread that flushes) changes the pending set, and the loop ends without
\* RuntimeError or KeyError.
C23_ReplaySeesSnapshot ==
  /\ (resend.pc \in {"next", "body"} /\ hist.step \in {"recv_reply", "update"})
       => packet_awaiting_confirm = hist.pend0
  /\ resend.pc # "raised"

\* C24: once the create_bulk calls of all threads have returned on a link
\* that never failed, every envelope handed to create_bulk was written to the
\* socket exactly once or waits in the batch: none was discarded by the clear
\* of another call, none was written twice.
C24_EachEnvelopeFlushedOnce ==
  (faults = 0 /\ \A c \in Callers : bulk_calls.pc[c] = "idle") =>
    \A id \in 1..nextId :
      Count(bulk_calls.wire, id) + Count(bulk_send_list, id) = 1

\* C25: after a socket write of a flush raised OSError on a connected
\* session whose threads run, the session gets to reconnect in the end.
C25_WriteFaultReconnects ==
  (/\ hist.step = "update"
   /\ rthread \in {"top", "recv"}
   /\ \E i \in 1..Len(hist.attempts) : ~hist.attempts[i].ok)
    ~> (rthread = "reconnecting")

C27_KnownTargetAnsweredOnce ==
  (/\ hist.step = "recv_frame"
   /\ hist.inbound.frame.method \in Requests
   /\ hist.inbound.frame.nest = "full"
   /\ hist.inbound.frame.target # "unknown")
    => /\ Len(hist.inbound.put) = 1
       /\ hist.inbound.put[1].id = nextId
       /\ hist.inbound.put[1].msg \in {"success", "failed"}

\* C28: a step that reads an error or result frame with id X leaves X out
\* of the pending set, removes no other id, queues no reply for the peer, and
\* the receive thread goes on, whatever the shape of the result.
C28_ReplyResolvesItsId ==
  hist.step = "recv_reply" =>
    /\ hist.inbound.reply \notin Ids(packet_awaiting_confirm)
    /\ \A k \in 1..Len(hist.pend0) :
         hist.pend0[k].id # hist.inbound.reply
           => hist.pend0[k] \in Range(packet_awaiting_confirm)
    /\ hist.inbound.put = <<>>
    /\ rthread # "dead"

\* C29: in what initialize_all wrote to the socket and left in the batch, in
\* that order, the snapshot (the POST) comes before every GET.
C29_SnapshotBeforeGets ==
  hist.step = "initialize_all" =>
    LET out == Flatten(hist.frames) \o bulk_send_list
    IN \A i, j \in 1..Len(out) :
         (out[i].method = "GET" /\ out[j].method = "POST") => j < i

\* C30: a set_period or set_delta call returns normally, whatever the
\* argument; set_period changes the period only when the value has a report
\* state and the argument parses as a whole number above zero, set_delta
\* changes the delta only when the value is number-typed, has a report state
\* and the argument parses as a number above zero; after a call with None, a
\* text that is no number, zero or a negative number the previous setting is
\* retained.
C30_InvalidSettingRetained ==
  LET c == vs.call
      whole == \/ c.arg.kind \in {"int", "str_int"} /\ c.arg.n10 > 0
               \/ c.arg.kind = "float" /\ c.arg.n10 >= 10
      positive == c.arg.kind \in {"int", "str_int", "float", "str_dec"} /\ c.arg.n10 > 0
      invalid == c.arg.kind \in {"none", "text"} \/ c.arg.n10 <= 0
  IN c.op # "none" =>
       /\ c.exc = "none"
       /\ c.op = "set_period" =>
            /\ vs.period # c.before => vs.report /\ whole
            /\ invalid => vs.period = c.before
       /\ c.op = "set_delta" =>
            /\ vs.delta # c.before => vs.number /\ vs.report /\ positive
            /\ invalid => vs.delta = c.before

\* C31: a tick sends a delta report only when the flag is set and the sample
\* it observes differs from the sample observed before it by at least delta;
\* none is sent at a tick that observes the same sample again.
C31_DeltaReportOnlyOnChange ==
  (vs.tick.seen /\ vs.tick.delta_sent) =>
    /\ vs.tick.dirty = 1
    /\ 10 * vs.tick.gap >= 10 * vs.delta + vs.frac

\* A JSON value that holds no None, no empty dict and no empty list at any
\* depth.
RECURSIVE Stripped(_)
Stripped(obj) ==
  /\ obj.t # "none"
  /\ obj.t \in {"dict", "list"} =>
       /\ obj.kids # <<>>
       /\ \A i \in 1..Len(obj.kids) : Stripped(obj.kids[i])

\* C32: after the stripping of send_data no surviving envelope is empty, no
\* key at any depth holds None, an empty dict or an empty list, no list
\* holds an empty element, and stripping the result again changes nothing.
C32_StrippingComplete ==
  strip.pc = "done" =>
    /\ strip.exc = "none"
    /\ \A i \in 1..Len(strip.data) : Stripped(strip.data[i])
    /\ StripElements(strip.data, 1) = [exc |-> "none", kids |-> strip.data]

\* C33: receive_data returns a message only when what it read parses as one
\* JSON value; after a chunk that fails to decode it reads on exactly when
\* the chunk filled the 1024-byte buffer and the accumulated text is within
\* the size cap; otherwise it returns no message, raises nothing and leaves
\* the session connected.
C33_DecodeFailureToleratedWhileFull ==
  hist.step = "read_chunk" =>
    LET l == reading.last IN
    /\ reading.result = "message" => l.chunk.parses
    /\ l.failed =>
         /\ l.went = "loop" <=> (l.chunk.bytes = RECEIVE_SIZE /\ l.within)
         /\ l.went # "loop" =>
              l.went = "returned" /\ reading.result = "none" /\ connected

\* C34: under the evict-oldest policy add_message raises nothing, whatever
\* the size of the message and the files of the log directory, and when the
\* message alone fits within the byte limit it ends as the last line of the
\* file of the day of the call (the newest file).
C34_EvictOldestAlwaysStores ==
  (hist.step = "update" /\ log_offline /\ limit_action = REMOVE_OLD) =>
    /\ hist.exc = "none"
    /\ \A i \in 1..Len(hist.calls) :
         LET data == hist.calls[i].batch IN
         (hist.calls[i].live = FALSE
          /\ PY_STR_OVERHEAD + StrLen(JsonDumps(data)) <= log_data_limit) =>
           \E d \in Days :
             /\ files[d].kind = "txt"
             /\ \A o \in GetLogs(files) : o <= d
             /\ files[d].lines # <<>>
             /\ files[d].lines[Len(files[d].lines)].src = data

\* C35: an add_message call made while logging is disabled, or under the
\* drop-newest policy with a batch that would exceed the byte limit, leaves
\* every file of the log directory as it was, appends nothing and raises
\* nothing.
C35_DropNewestLeavesFiles ==
  [][(/\ hist'.step = "update"
      /\ nextId' = nextId + 1
      /\ Len(hist'.calls) = 1
      /\ hist'.calls[1].live = FALSE
      /\ \/ ~log_offline
         \/ /\ limit_action = REMOVE_RECENT
            /\ log_data_limit < GetSize(files, JsonDumps(hist'.calls[1].batch)))
     => (files' = files /\ hist'.adds = 0 /\ hist'.exc = "none")]_vars

C35_Witness ==
  /\ hist.step = "update"
  /\ log_offline
  /\ limit_action = REMOVE_RECENT
  /\ nextId \in hist.evicted
  /\ hist.adds = 0
  /\ \E d \in Days : Len(files[d].lines) >= 2

\* C36: the log files are taken in calendar order of their names: a step
\* of add_message that trims a file leaves no file of an earlier day, and
\* send_log replays a file only when no file of an earlier day is left.
C36_FilesInCalendarOrder ==
  [][\A d \in Days :
       /\ (/\ hist'.step = "update"
           /\ files[d].lines # <<>>
           /\ \/ files'[d].lines = <<>>
              \/ files'[d].lines[1] # files[d].lines[1])
          => \A o \in GetLogs(files) : o < d => files'[o].kind = "none"
       /\ (/\ hist'.step = "replay_file"
           /\ files[d].kind # "none"
           /\ files'[d].kind = "none")
          => \A o \in GetLogs(files) : o >= d]_vars

\* C37: with one producer the envelopes a step writes to the socket are in
\* the order in which create_bulk appended them (ids are handed out at the
\* append), within a frame and from frame to frame, and every one of them
\* was appended after every envelope written by an earlier step.
C37_WireInEnqueueOrder ==
  [][LET wire == Flatten(hist'.frames) IN
     /\ \A i, j \in 1..Len(wire) : i < j => wire[i].id < wire[j].id
     /\ \A i \in 1..Len(wire) : \A id \in hist.written : id < wire[i].id]_vars

C37_Witness ==
  /\ Len(Flatten(hist.frames)) >= 2
  /\ Cardinality(hist.written) > Len(Flatten(hist.frames))
  /\ faults = 0

\* C38: every flush made while the session is not connected hands its
\* stripped batch to add_message, once; it writes nothing to the socket (a
\* step tries no more writes than it has flushes on a connected session)
\* and registers no id (an id that became pending in the step belongs to a
\* flush on a connected session).
C38_OfflineFlushGoesToLog ==
  LET inv == {i \in 1..Len(hist.calls) : hist.calls[i].invoked}
      off == {i \in inv : ~hist.calls[i].live}
      on == inv \ off
  IN /\ Len(hist.handed) = Cardinality(off)
     /\ \A i \in off :
          hist.handed[Cardinality({j \in off : j <= i})] = StripLoop(hist.calls[i].batch, 1)
     /\ Len(hist.attempts) <= Cardinality(on)
     /\ \A id \in Ids(packet_awaiting_confirm) \ Ids(hist.pend0) :
          \E i \in on : id \in Ids(hist.calls[i].batch)

C38_Witness ==
  /\ hist.step = "update"
  /\ log_offline
  /\ Len(hist.handed) = 1
  /\ Len(hist.handed[1]) >= 2
  /\ hist.adds = 1
  /\ \E i \in 1..Len(hist.handed[1]) : Mutating(hist.handed[1][i])
  /\ hist.attempts = <<>>

\* C39: after a step in which create_bulk was called and returned, the batch
\* holds fewer than MAX_BULK_SIZE envelopes, also when the socket write
\* failed.
C39_BatchBelowCap ==
  (hist.calls # <<>> /\ hist.exc = "none") => Len(bulk_send_list) < MAX_BULK_SIZE

\* C40: a flush made while the session is not connected whose batch is
\* empty, or is empty after the stripping, appends no line to a log file;
\* no log file holds a line with an empty batch.
C40_NoEmptyLogLine ==
  /\ \A i \in 1..Len(hist.calls) :
       LET c == hist.calls[i]
       IN (c.invoked /\ ~c.live /\ StripLoop(c.batch, 1) = <<>>) => hist.adds = 0
  /\ \A d \in Days : \A k \in 1..Len(files[d].lines) : files[d].lines[k].src # <<>>
====
